---- MODULE Spec2Model ----
(***************************************************************************)
(* Walk-forward evaluation (historical_forecasts) of darts forecasting     *)
(* models, darts/models/forecasting/forecasting_model.py.                  *)
(*                                                                         *)
(* A series is abstracted to its time index: the pair <<first, last>> of   *)
(* its first and last timestamps on a grid of step Freq (a range index).   *)
(* An empty series has last = first - Freq.  A missing series (Python      *)
(* None) is the empty tuple.  Values, widths and static covariates are not *)
(* modelled.                                                               *)
(***************************************************************************)
EXTENDS Integers, Sequences, FiniteSets, TLC

\* ---------------------------------------------------------------- bounds
SeriesLen == 5
Freq == 2
MaxHorizon == 2
MaxStride == 2
MaxRetrain == 2
MaxTrainLength == 3
MaxValues == 3
MaxError == 2
MaxSample == 3

\* the constructions of models of one class that run side by side
NumConstructions == 2

\* the values of the argument of a construction
MaxParams == 3

\* the fit and predict calls made on one model
MaxCalls == 3

\* the values of num_samples
MaxNumSamples == 2

\* the length of a series given to a scorer, and the scorer's window
MaxScorerLen == 2

\* the length and the width of a series given to an aggregator
MaxAggLen == 2

MaxWidth == 2

\* ------------------------------------------------------ series operations
NoneTS == <<>>

Min(a, b) == IF a <= b THEN a ELSE b

Max(a, b) == IF a >= b THEN a ELSE b

MkSeries(first, last) == <<first, last>>

start_time(s) == s[1]

end_time(s) == s[2]

\* len(series)
len(s) == IF s[2] < s[1] THEN 0 ELSE ((s[2] - s[1]) \div Freq) + 1

\* series.time_index[i], Python indexing: a negative i counts from the end
time_index(s, i) == IF i >= 0 THEN s[1] + i * Freq ELSE s[2] + (i + 1) * Freq

\* series.drop_after(t): the points before t; whether the point at t itself
\* is kept is the boundary convention, which is left open (incl).
drop_after(s, t, incl) ==
    LET cut == IF incl THEN t ELSE t - Freq
    IN  MkSeries(s[1], Max(Min(cut, s[2]), s[1] - Freq))

\* series[-n:], the trailing n points (n >= 1)
tail(s, n) == IF len(s) > n THEN MkSeries(s[2] - (n - 1) * Freq, s[2]) ELSE s

\* series.slice_intersect(other)
slice_intersect(s, o) == MkSeries(Max(s[1], o[1]), Min(s[2], o[2]))

\* series.has_same_time_as(other)
has_same_time_as(s, o) ==
    (len(s) = 0 /\ len(o) = 0) \/ (s[1] = o[1] /\ s[2] = o[2])

\* start as an index into the series, and as the fraction num / den of it
StartInt(i) == [type |-> "int", num |-> i, den |-> 1]

StartFloat(num, den) == [type |-> "float", num |-> num, den |-> den]

\* The index of a float point scaled by the number of points
get_index_at_point_float_by_length(n, num, den) == (n * num) \div den

\* The index of the float point num / den in a series of n points:
\* int((n - 1) * point)
get_index_at_point_float(n, num, den) == ((n - 1) * num) \div den

\* series.get_index_at_point(point) for an integer index and for a float
get_index_at_point(s, point) ==
    IF point.type = "int"
    THEN point.num
    ELSE get_index_at_point_float(len(s), point.num, point.den)

\* series.get_timestamp_at_point(point)
get_timestamp_at_point(s, point) == time_index(s, get_index_at_point(s, point))

\* ------------------------------------------------------------ model kinds
Kinds == {"Local", "Global", "FutureCovLocal", "TransferableFutureCovLocal"}

min_train_series_length == 3

\* every class declaring the support
supports_non_retrainable_everywhere(k) == TRUE

supports_non_retrainable_historical_forecasts(k) ==
    k \in {"Global", "TransferableFutureCovLocal"}

\* "past_covariates" / "future_covariates" in the signature of fit
uses_past_covariates(k) == k = "Global"

uses_future_covariates(k) == k # "Local"

\* ForecastingModel.__init__
NewModel ==
    [fit_called |-> FALSE,
     training_series |-> NoneTS,
     expect_covariate |-> FALSE,
     past_covariate_series |-> NoneTS,
     future_covariate_series |-> NoneTS]

\* --------------------------------------------------- fit / predict of models
Raise(m) == [ok |-> FALSE, m |-> m]

Return(m) == [ok |-> TRUE, m |-> m]

\* ForecastingModel.fit without the check of the series' length
ForecastingModel_fit_unchecked(m, series) ==
    [ok |-> TRUE, m |-> [m EXCEPT !.training_series = series, !.fit_called = TRUE]]

\* ForecastingModel.fit: the length check, then the two assignments.
ForecastingModel_fit(m, series) ==
    IF len(series) >= min_train_series_length
    THEN Return([m EXCEPT !.training_series = series, !.fit_called = TRUE])
    ELSE Raise(m)

\* GlobalForecastingModel.fit with a single series.
GlobalForecastingModel_fit(m, series, past_covariates, future_covariates) ==
    Return([m EXCEPT
        !.training_series = series,
        !.past_covariate_series =
            IF past_covariates # NoneTS THEN past_covariates ELSE @,
        !.future_covariate_series =
            IF future_covariates # NoneTS THEN future_covariates ELSE @,
        !.fit_called = TRUE])

\* fit of a concrete global model: it refuses a series shorter than its
\* minimum training length, then runs the base class's fit.
GlobalModel_fit(m, series, past_covariates, future_covariates) ==
    IF len(series) >= min_train_series_length
    THEN GlobalForecastingModel_fit(m, series, past_covariates, future_covariates)
    ELSE Raise(m)

\* FutureCovariatesLocalForecastingModel.fit: the covariates are intersected
\* with the target and must then cover it; _expect_covariate is set before
\* the base class checks the length of the series.
FutureCovariatesLocalForecastingModel_fit(m, series, future_covariates) ==
    IF future_covariates # NoneTS
    THEN LET fc == IF has_same_time_as(series, future_covariates)
                   THEN future_covariates
                   ELSE slice_intersect(future_covariates, series)
         IN  IF has_same_time_as(series, fc)
             THEN ForecastingModel_fit([m EXCEPT !.expect_covariate = TRUE], series)
             ELSE Raise(m)
    ELSE ForecastingModel_fit(m, series)

\* What _fit_wrapper hands to self.fit, per model class.
fit_wrapper_args(k, series, past_covariates, future_covariates) ==
    [series |-> series,
     past_covariates |->
        IF uses_past_covariates(k) THEN past_covariates ELSE NoneTS,
     future_covariates |->
        IF uses_future_covariates(k) THEN future_covariates ELSE NoneTS]

\* _fit_wrapper of the four model classes.
fit_wrapper(k, m, series, past_covariates, future_covariates) ==
    LET a == fit_wrapper_args(k, series, past_covariates, future_covariates)
    IN  CASE k = "Local" -> ForecastingModel_fit(m, a.series)
          [] k = "Global" ->
                GlobalModel_fit(m, a.series, a.past_covariates,
                                a.future_covariates)
          [] OTHER ->
                FutureCovariatesLocalForecastingModel_fit(m, a.series,
                                                          a.future_covariates)

\* The forecast of n points after the end of series s.
build_forecast_series(s, n) ==
    [first |-> end_time(s) + Freq, last |-> end_time(s) + n * Freq]

NoForecast == [first |-> 0, last |-> -1]

PRaise(m) == [ok |-> FALSE, m |-> m, forecast |-> NoForecast]

PReturn(m, f) == [ok |-> TRUE, m |-> m, forecast |-> f]

\* ForecastingModel.predict: only the fitted check (num_samples is 1).
ForecastingModel_predict_ok(m) == m.fit_called

\* future_covariates holds the n time steps after the end of the training series
covers_horizon(m, n, future_covariates) ==
    LET start == end_time(m.training_series) + Freq
    IN  /\ end_time(future_covariates) >= start
        /\ start_time(future_covariates) <= start
        /\ end_time(future_covariates) >= start + (n - 1) * Freq

\* FutureCovariatesLocalForecastingModel.predict
FutureCovariatesLocalForecastingModel_predict(m, n, future_covariates) ==
    IF ~ForecastingModel_predict_ok(m) THEN PRaise(m)
    ELSE IF m.expect_covariate /\ future_covariates = NoneTS THEN PRaise(m)
    ELSE IF ~m.expect_covariate /\ future_covariates # NoneTS THEN PRaise(m)
    ELSE IF future_covariates # NoneTS /\ ~covers_horizon(m, n, future_covariates)
         THEN PRaise(m)
    ELSE PReturn(m, build_forecast_series(m.training_series, n))

\* TransferableFutureCovariatesLocalForecastingModel.predict that leaves the
\* series it was given in training_series
TransferableFutureCovariatesLocalForecastingModel_predict_unrestored(m, n, series, future_covariates) ==
    IF m.expect_covariate /\ future_covariates = NoneTS THEN PRaise(m)
    ELSE IF /\ future_covariates # NoneTS
            /\ ~(/\ start_time(future_covariates) <= start_time(series)
                 /\ end_time(future_covariates) >= end_time(series) + n * Freq)
         THEN PRaise(m)
    ELSE LET fut == IF future_covariates # NoneTS
                    THEN MkSeries(end_time(series) + Freq, end_time(future_covariates))
                    ELSE NoneTS
             swapped == [m EXCEPT !.training_series = series]
         IN  FutureCovariatesLocalForecastingModel_predict(swapped, n, fut)

\* TransferableFutureCovariatesLocalForecastingModel.predict with a series:
\* training_series is replaced for the call of the base class and restored
\* after it returned.
TransferableFutureCovariatesLocalForecastingModel_predict(m, n, series, future_covariates) ==
    IF m.expect_covariate /\ future_covariates = NoneTS THEN PRaise(m)
    ELSE IF /\ future_covariates # NoneTS
            /\ ~(/\ start_time(future_covariates) <= start_time(series)
                 /\ end_time(future_covariates) >= end_time(series) + n * Freq)
         THEN PRaise(m)
    ELSE LET fut == IF future_covariates # NoneTS
                    THEN MkSeries(end_time(series) + Freq, end_time(future_covariates))
                    ELSE NoneTS
             swapped == [m EXCEPT !.training_series = series]
             r == FutureCovariatesLocalForecastingModel_predict(swapped, n, fut)
         IN  IF r.ok
             THEN PReturn([r.m EXCEPT !.training_series = m.training_series],
                          r.forecast)
             ELSE PRaise(r.m)

\* What _predict_wrapper hands to self.predict, per model class.
predict_wrapper_args(k, series, past_covariates, future_covariates) ==
    [series |->
        IF k \in {"Global", "TransferableFutureCovLocal"} THEN series ELSE NoneTS,
     past_covariates |-> IF k = "Global" THEN past_covariates ELSE NoneTS,
     future_covariates |-> IF k # "Local" THEN future_covariates ELSE NoneTS]

\* _predict_wrapper of the four model classes.
predict_wrapper(k, m, n, series, past_covariates, future_covariates) ==
    LET a == predict_wrapper_args(k, series, past_covariates, future_covariates)
    IN  CASE k = "Local" ->
                IF ForecastingModel_predict_ok(m)
                THEN PReturn(m, build_forecast_series(m.training_series, n))
                ELSE PRaise(m)
          [] k = "Global" ->
                IF ForecastingModel_predict_ok(m)
                THEN PReturn(m, build_forecast_series(a.series, n))
                ELSE PRaise(m)
          [] k = "FutureCovLocal" ->
                FutureCovariatesLocalForecastingModel_predict(m, n,
                                                              a.future_covariates)
          [] OTHER ->
                TransferableFutureCovariatesLocalForecastingModel_predict(
                    m, n, a.series, a.future_covariates)

\* ------------------------------------------------ historical_forecasts
\* The retrain argument: a Python bool (val 1 for True, 0 for False, as
\* int(retrain) gives), an int, a callable, or a value of another type
\* (None), for which int(retrain) raises.
RetrainBool(b) == [type |-> "bool", val |-> IF b THEN 1 ELSE 0, sig |-> {}]

RetrainInt(k) == [type |-> "int", val |-> k, sig |-> {}]

\* A callable, with the covariates its parameters name
RetrainCallableOf(sig) == [type |-> "callable", val |-> 0, sig |-> sig]

CovariateNames == {"past_covariates", "future_covariates"}

RetrainCallable == RetrainCallableOf(CovariateNames)

RetrainOther == [type |-> "other", val |-> 0, sig |-> {}]

RetrainValues ==
    {RetrainBool(TRUE), RetrainBool(FALSE), RetrainCallable, RetrainOther}
        \cup {RetrainInt(k) : k \in (-1)..MaxRetrain}

\* The train_length argument: None, an int, or a non-integer number.
TrainLengthNone == [type |-> "none", val |-> 0]

TrainLengthInt(n) == [type |-> "int", val |-> n]

TrainLengthFloat == [type |-> "float", val |-> 2]

TrainLengthValues ==
    {TrainLengthNone, TrainLengthFloat, TrainLengthInt(0),
     TrainLengthInt(min_train_series_length - 1)}
        \cup {TrainLengthInt(n) : n \in min_train_series_length..MaxTrainLength}

TheSeries == MkSeries(0, (SeriesLen - 1) * Freq)

\* Covariates as long as the target, or reaching MaxHorizon steps further.
SameSpan == TheSeries

LongSpan == MkSeries(0, (SeriesLen - 1 + MaxHorizon) * Freq)

PastCovariates(k) == IF k = "Global" THEN {NoneTS, SameSpan} ELSE {NoneTS}

FutureCovariates(k) ==
    CASE k = "Local" -> {NoneTS}
      [] k = "Global" -> {NoneTS, LongSpan}
      [] OTHER -> {NoneTS, SameSpan, LongSpan}

\* _get_last_prediction_time ignoring the horizon
get_last_prediction_time_no_horizon(series, forecast_horizon, overlap_end) ==
    time_index(series, -1)

\* _get_last_prediction_time
get_last_prediction_time(series, forecast_horizon, overlap_end) ==
    IF overlap_end
    THEN time_index(series, -1)
    ELSE time_index(series, -forecast_horizon)

\* The checks of the _with_sanity_checks decorator, run before the body:
\* a positive horizon and stride, and a start inside the series from which
\* at least one forecast can be made.
historical_forecasts_sanity_checks(a) ==
    /\ a.forecast_horizon >= 1
    /\ a.stride >= 1
    /\ a.start.num >= 0
    /\ IF a.start.type = "int"
       THEN a.start.num < len(a.series)
       ELSE a.start.num <= a.start.den
    /\ get_timestamp_at_point(a.series, a.start)
          <= get_last_prediction_time(a.series, a.forecast_horizon, a.overlap_end)

\* isinstance(retrain, Callable) or int(retrain) != 1
AsksToSkipRetraining(retrain) ==
    retrain.type = "callable" \/ retrain.val # 1

ConfigErrors ==
    {"SanityCheck", "RetrainNotANumber", "NonRetrainableModel",
     "TrainLengthNotInteger", "TrainLengthNotPositive", "TrainLengthTooSmall",
     "RetrainType"}

\* The configuration checks without the sanity checks on start
ConfigError_unchecked_start(k, a) ==
    IF a.retrain.type = "other" THEN "RetrainNotANumber"
    ELSE IF /\ AsksToSkipRetraining(a.retrain)
            /\ ~supports_non_retrainable_historical_forecasts(k)
         THEN "NonRetrainableModel"
    ELSE IF a.train_length.type = "float" THEN "TrainLengthNotInteger"
    ELSE IF a.train_length.type = "int" /\ a.train_length.val < 1
         THEN "TrainLengthNotPositive"
    ELSE IF /\ a.train_length.type = "int"
            /\ a.train_length.val < min_train_series_length
         THEN "TrainLengthTooSmall"
    ELSE IF ~(\/ a.retrain.type = "bool"
              \/ (a.retrain.type = "int" /\ a.retrain.val >= 0)
              \/ a.retrain.type = "callable")
         THEN "RetrainType"
    ELSE "none"

\* The configuration checks without the comparison of train_length with
\* min_train_series_length
ConfigError_no_min_length(k, a) ==
    IF ~historical_forecasts_sanity_checks(a) THEN "SanityCheck"
    ELSE IF a.retrain.type = "other" THEN "RetrainNotANumber"
    ELSE IF /\ AsksToSkipRetraining(a.retrain)
            /\ ~supports_non_retrainable_historical_forecasts(k)
         THEN "NonRetrainableModel"
    ELSE IF a.train_length.type = "float" THEN "TrainLengthNotInteger"
    ELSE IF a.train_length.type = "int" /\ a.train_length.val < 1
         THEN "TrainLengthNotPositive"
    ELSE IF ~(\/ a.retrain.type = "bool"
              \/ (a.retrain.type = "int" /\ a.retrain.val >= 0)
              \/ a.retrain.type = "callable")
         THEN "RetrainType"
    ELSE "none"

\* The configuration checks at the head of historical_forecasts, in the
\* order of the code; "none" when all pass.
ConfigError(k, a) ==
    IF ~historical_forecasts_sanity_checks(a) THEN "SanityCheck"
    ELSE IF a.retrain.type = "other" THEN "RetrainNotANumber"
    ELSE IF /\ AsksToSkipRetraining(a.retrain)
            /\ ~supports_non_retrainable_historical_forecasts(k)
         THEN "NonRetrainableModel"
    ELSE IF a.train_length.type = "float" THEN "TrainLengthNotInteger"
    ELSE IF a.train_length.type = "int" /\ a.train_length.val < 1
         THEN "TrainLengthNotPositive"
    ELSE IF /\ a.train_length.type = "int"
            /\ a.train_length.val < min_train_series_length
         THEN "TrainLengthTooSmall"
    ELSE IF ~(\/ a.retrain.type = "bool"
              \/ (a.retrain.type = "int" /\ a.retrain.val >= 0)
              \/ a.retrain.type = "callable")
         THEN "RetrainType"
    ELSE "none"

\* retrain_func counting iterations from 1
retrain_func_from_one(retrain, counter, answer) ==
    IF retrain.type = "callable" THEN answer
    ELSE IF retrain.val # 0 THEN (counter + 1) % retrain.val = 0
    ELSE FALSE

\* retrain_func with the test of retrain's truth value turned around
retrain_func_inverted(retrain, counter, answer) ==
    IF retrain.type = "callable" THEN answer
    ELSE IF retrain.val # 0 THEN FALSE
    ELSE TRUE

\* lambda counter: counter % int(retrain) == 0 if retrain else False, or the
\* callable itself, whose value in this iteration is answer
retrain_func(retrain, counter, answer) ==
    IF retrain.type = "callable" THEN answer
    ELSE IF retrain.val # 0 THEN counter % retrain.val = 0
    ELSE FALSE

\* the arguments of retrain_func with the future covariates cut at the
\* forecast time plus the horizon, beyond the end of the series or not
retrain_func_args_no_min(a, pred_time, train, inclusive) ==
    [pred_time |-> pred_time,
     train_series |-> train,
     past_covariates |->
        IF a.past_covariates # NoneTS /\ "past_covariates" \in a.retrain.sig
        THEN drop_after(a.past_covariates, pred_time, inclusive)
        ELSE NoneTS,
     future_covariates |->
        IF a.future_covariates # NoneTS /\ "future_covariates" \in a.retrain.sig
        THEN drop_after(a.future_covariates,
                        pred_time + Freq * a.forecast_horizon, inclusive)
        ELSE NoneTS]

\* the arguments retrain_func is called with, beside the counter
retrain_func_args(a, pred_time, train, inclusive) ==
    [pred_time |-> pred_time,
     train_series |-> train,
     past_covariates |->
        IF a.past_covariates # NoneTS /\ "past_covariates" \in a.retrain.sig
        THEN drop_after(a.past_covariates, pred_time, inclusive)
        ELSE NoneTS,
     future_covariates |->
        IF a.future_covariates # NoneTS /\ "future_covariates" \in a.retrain.sig
        THEN drop_after(a.future_covariates,
                        Min(pred_time + Freq * a.forecast_horizon,
                            end_time(a.series)),
                        inclusive)
        ELSE NoneTS]

NoRetrainFuncArgs ==
    [pred_time |-> 0, train_series |-> NoneTS, past_covariates |-> NoneTS,
     future_covariates |-> NoneTS]

\* the condition of the if statement around _fit_wrapper, without the
\* test of _fit_called
retrain_decision_unforced(fit_called, retrain, counter, answer) ==
    retrain_func(retrain, counter, answer)

\* the condition of the if statement around _fit_wrapper
retrain_decision(fit_called, retrain, counter, answer) ==
    (~fit_called) \/ retrain_func(retrain, counter, answer)

\* pred_times: the while loop, then the pop of an overshooting last element
RECURSIVE pred_times_loop(_, _, _)
pred_times_loop(pt, last_valid_pred_time, step) ==
    IF pt[Len(pt)] < last_valid_pred_time
    THEN pred_times_loop(Append(pt, pt[Len(pt)] + step), last_valid_pred_time, step)
    ELSE pt

RECURSIVE Reverse(_)
Reverse(sq) ==
    IF sq = <<>> THEN <<>> ELSE Append(Reverse(Tail(sq)), Head(sq))

\* The forecast origins handed to the loop latest first
build_pred_times_reversed(start, last_valid_pred_time, step) ==
    LET pt == pred_times_loop(<<start>>, last_valid_pred_time, step)
    IN  Reverse(IF pt[Len(pt)] > last_valid_pred_time
                THEN SubSeq(pt, 1, Len(pt) - 1)
                ELSE pt)

\* pred_times with the last computed element always popped
build_pred_times_always_pop(start, last_valid_pred_time, step) ==
    LET pt == pred_times_loop(<<start>>, last_valid_pred_time, step)
    IN  SubSeq(pt, 1, Len(pt) - 1)

\* pred_times without the pop of the overshooting element
build_pred_times_no_pop(start, last_valid_pred_time, step) ==
    pred_times_loop(<<start>>, last_valid_pred_time, step)

build_pred_times(start, last_valid_pred_time, step) ==
    LET pt == pred_times_loop(<<start>>, last_valid_pred_time, step)
    IN  IF pt[Len(pt)] > last_valid_pred_time
        THEN SubSeq(pt, 1, Len(pt) - 1)
        ELSE pt

\* the training series without the cut at the prediction time
build_train_no_drop(series, pred_time, train_length, incl) ==
    IF train_length.type = "int" /\ train_length.val # 0
       /\ len(series) > train_length.val
    THEN tail(series, train_length.val)
    ELSE series

\* the training series keeping one point more than train_length
build_train_off_by_one(series, pred_time, train_length, incl) ==
    LET train == drop_after(series, pred_time, incl)
    IN  IF train_length.type = "int" /\ train_length.val # 0
           /\ len(train) > train_length.val
        THEN tail(train, train_length.val + 1)
        ELSE train

\* the training series of one iteration
build_train(series, pred_time, train_length, incl) ==
    LET train == drop_after(series, pred_time, incl)
    IN  IF train_length.type = "int" /\ train_length.val # 0
           /\ len(train) > train_length.val
        THEN tail(train, train_length.val)
        ELSE train

\* ------------------------------------------------------------------ state
VARIABLES
    kind,         \* the class of the model under evaluation
    incl,         \* drop_after keeps the point at the split timestamp
    model,        \* the model's attributes
    pc,           \* "idle", "loop", "done" or "error"
    args,         \* the arguments of the running historical_forecasts call
    pre,          \* the model's attributes when the call started
    pred_times,   \* the forecast origins of the call
    counter,      \* _counter: the index of the next iteration
    log,          \* one record per iteration that ran: what was fit and predicted
    forecasts,    \* the forecast of every completed iteration
    err,          \* the error that ended the call, "none" otherwise
    result,       \* the value returned
    previous,     \* what the caller kept of an earlier call with these inputs
    backtest,     \* the metric scores backtest computed and what it returned
    gs,           \* the gridsearch call: its arguments, combinations, errors
    meta,         \* ModelMeta: the class attribute _model_call, two constructions
    life,         \* the calls of fit and predict made on the model directly
    scorer,       \* the anomaly scorer and its last operation
    agg           \* the aggregator's last prediction

vars == <<kind, incl, model, pc, args, pre, pred_times, counter, log,
          forecasts, err, result, previous, backtest, gs, meta, life, scorer,
          agg>>

\* the variables of historical_forecasts and backtest
hfvars == <<kind, incl, model, pc, args, pre, pred_times, counter, log,
            forecasts, err, result, previous, backtest>>

\* the variables of the other operations
othervars == <<gs, meta, life, scorer, agg>>

NoArgs ==
    [series |-> TheSeries, past_covariates |-> NoneTS,
     future_covariates |-> NoneTS, train_length |-> TrainLengthNone,
     start |-> StartInt(0), forecast_horizon |-> 1, stride |-> 1,
     retrain |-> RetrainBool(TRUE), overlap_end |-> FALSE]

NoResult ==
    [last_points_only |-> FALSE, times |-> <<>>, values |-> <<>>, step |-> 0,
     items |-> <<>>]

\* gridsearch has not been called
NoGridsearch == [pc |-> "idle"]

\* no model of the class is under construction
NoConstruction ==
    [model_call |-> <<>>,
     threads |-> [t \in 1..NumConstructions |->
                     [pc |-> "idle", all_params |-> 0, model_params |-> <<>>,
                      err |-> "none"]],
     pc |-> "idle", err |-> "none", args |-> <<>>, kwargs |-> <<>>,
     instance |-> <<>>, clone |-> <<>>]

\* neither fit nor predict has been called on the model directly
NoLifecycle ==
    [pc |-> "idle", model |-> NewModel, is_probabilistic |-> FALSE,
     calls |-> <<>>]

\* no scorer has been built
NoScorerCall ==
    [op |-> "none", ok |-> TRUE, err |-> "none", inputs |-> <<>>,
     warnings |-> <<>>, fit_core |-> <<>>, score_core |-> <<>>]

NoScorer ==
    [pc |-> "idle", window |-> 1, diff_fn |-> "abs_diff",
     fit_called |-> FALSE, last |-> NoScorerCall]

\* the aggregator has not predicted
NoAggregation == [pc |-> "idle", series |-> <<>>, prediction |-> <<>>]

\* backtest has not returned
NoBacktest ==
    [called |-> FALSE, metric |-> <<>>, is_list |-> FALSE, reduction |-> "None",
     raw |-> <<>>, returned |-> <<>>]

\* no earlier call
NoPrevious ==
    [called |-> FALSE, result |-> NoResult, fitted_before |-> FALSE,
     refits |-> 0, model_before |-> NewModel, model_after |-> NewModel]

Init ==
    /\ kind \in Kinds
    /\ incl \in BOOLEAN
    /\ model = NewModel
    /\ pc = "idle"
    /\ args = NoArgs
    /\ pre = NewModel
    /\ pred_times = <<>>
    /\ counter = 0
    /\ log = <<>>
    /\ forecasts = <<>>
    /\ err = "none"
    /\ result = NoResult
    /\ previous = NoPrevious
    /\ backtest = NoBacktest
    /\ gs = NoGridsearch
    /\ meta = NoConstruction
    /\ life = NoLifecycle
    /\ scorer = NoScorer
    /\ agg = NoAggregation

\* The caller fits the fresh model on the whole series before evaluating it.
UserFit ==
    /\ pc = "idle"
    /\ model = NewModel
    /\ \E fc \in (IF kind = "Global" THEN {NoneTS} ELSE FutureCovariates(kind)) :
          model' = fit_wrapper(kind, model, TheSeries, NoneTS, fc).m
    /\ UNCHANGED <<kind, incl, pc, args, pre, pred_times, counter, log,
                   forecasts, err, result, previous, backtest>>
    /\ UNCHANGED othervars

\* historical_forecasts up to the loop: the checks, then the forecast origins.
HistoricalForecastsCall ==
    /\ pc = "idle"
    /\ \E pcov \in PastCovariates(kind), fcov \in FutureCovariates(kind),
          tl \in TrainLengthValues, st \in 1..(SeriesLen - 1),
          h \in 1..MaxHorizon, sd \in 1..MaxStride, rt \in RetrainValues,
          oe \in BOOLEAN :
          LET a == [series |-> TheSeries, past_covariates |-> pcov,
                    future_covariates |-> fcov, train_length |-> tl,
                    start |-> StartInt(st), forecast_horizon |-> h,
                    stride |-> sd,
                    retrain |-> rt, overlap_end |-> oe]
              e == ConfigError(kind, a)
          IN  /\ args' = a
              /\ err' = e
              /\ pc' = IF e = "none" THEN "loop" ELSE "error"
              /\ pred_times' =
                    IF e = "none"
                    THEN build_pred_times(
                            get_timestamp_at_point(a.series, a.start),
                            get_last_prediction_time(a.series, h, oe),
                            Freq * sd)
                    ELSE <<>>
    /\ pre' = model
    /\ counter' = 0
    /\ log' = <<>>
    /\ forecasts' = <<>>
    /\ UNCHANGED <<kind, incl, model, result, previous, backtest>>
    /\ UNCHANGED othervars

\* One iteration of the loop: the training series, the retrain decision,
\* the fit, the prediction, the record of the forecast.
HistoricalForecastsIterate ==
    /\ pc = "loop"
    /\ counter < Len(pred_times)
    /\ LET pred_time == pred_times[counter + 1]
           train == build_train(args.series, pred_time, args.train_length, incl)
           asked == model.fit_called /\ args.retrain.type = "callable"
       IN  \E answer \in (IF asked THEN BOOLEAN ELSE {FALSE}) :
           LET refit == retrain_decision(model.fit_called, args.retrain,
                                         counter, answer)
               fr == IF refit
                     THEN fit_wrapper(kind, model, train, args.past_covariates,
                                      args.future_covariates)
                     ELSE Return(model)
               pr == predict_wrapper(kind, fr.m, args.forecast_horizon, train,
                                     args.past_covariates, args.future_covariates)
               entry ==
                   [counter |-> counter,
                    pred_time |-> pred_time,
                    train |-> train,
                    fitted_before |-> model.fit_called,
                    asked |-> asked,
                    answer |-> answer,
                    retrain_func_args |->
                        IF model.fit_called
                        THEN retrain_func_args(args, pred_time, train, incl)
                        ELSE NoRetrainFuncArgs,
                    refit |-> refit,
                    fit_ok |-> refit /\ fr.ok,
                    fit_args |-> fit_wrapper_args(kind, train,
                                    args.past_covariates, args.future_covariates),
                    predicted |-> fr.ok,
                    fitted_at_predict |-> fr.m.fit_called,
                    predict_ok |-> fr.ok /\ pr.ok,
                    predict_args |-> predict_wrapper_args(kind, train,
                                    args.past_covariates, args.future_covariates)]
           IN  /\ log' = Append(log, entry)
               /\ IF ~fr.ok
                  THEN /\ model' = fr.m
                       /\ pc' = "error"
                       /\ err' = "FitError"
                       /\ UNCHANGED <<counter, forecasts>>
                  ELSE IF ~pr.ok
                  THEN /\ model' = pr.m
                       /\ pc' = "error"
                       /\ err' = "PredictError"
                       /\ UNCHANGED <<counter, forecasts>>
                  ELSE /\ model' = pr.m
                       /\ forecasts' = Append(forecasts, pr.forecast)
                       /\ counter' = counter + 1
                       /\ UNCHANGED <<pc, err>>
    /\ UNCHANGED <<kind, incl, args, pre, pred_times, result, previous,
                   backtest>>
    /\ UNCHANGED othervars

\* pd.RangeIndex(start, stop, step) with a positive step: start, start +
\* step, ... below stop
RangeIndex(start, stop, step) ==
    IF stop <= start THEN <<>>
    ELSE [i \in 1..((stop - 1 - start) \div step + 1) |-> start + (i - 1) * step]

\* pd.DatetimeIndex(times, freq): the times themselves, refused when two
\* neighbours are not freq apart
DatetimeIndex(times, freq) ==
    IF \A i \in 1..(Len(times) - 1) : times[i + 1] - times[i] = freq
    THEN [ok |-> TRUE, index |-> times]
    ELSE [ok |-> FALSE, index |-> <<>>]

\* TimeSeries.from_times_and_values: one value per time
from_times_and_values(times, values, step) ==
    IF Len(times) = Len(values)
    THEN [ok |-> TRUE, err |-> "none", times |-> times, values |-> values,
          step |-> step]
    ELSE [ok |-> FALSE, err |-> "ValueError", times |-> <<>>, values |-> <<>>,
          step |-> 0]

AssemblyFailed(e) ==
    [ok |-> FALSE, err |-> e, times |-> <<>>, values |-> <<>>, step |-> 0]

\* The series of last points on an index whose step is the series' step
assemble_last_points_base_step(last_points_times, last_points_values, freq, stride, has_datetime_index) ==
    IF has_datetime_index
    THEN LET ix == DatetimeIndex(last_points_times, freq)
         IN  IF ix.ok
             THEN from_times_and_values(ix.index, last_points_values, freq)
             ELSE AssemblyFailed("ValueError")
    ELSE IF Len(last_points_times) = 0 THEN AssemblyFailed("IndexError")
    ELSE from_times_and_values(
            RangeIndex(last_points_times[1],
                       last_points_times[Len(last_points_times)] + 1, freq),
            last_points_values, freq)

\* The series built from the last points: on a DatetimeIndex over their times
\* with freq = series.freq * stride, or on the RangeIndex from the first time
\* to the last with that step.
assemble_last_points(last_points_times, last_points_values, freq, stride, has_datetime_index) ==
    IF has_datetime_index
    THEN LET ix == DatetimeIndex(last_points_times, freq * stride)
         IN  IF ix.ok
             THEN from_times_and_values(ix.index, last_points_values,
                                        freq * stride)
             ELSE AssemblyFailed("ValueError")
    ELSE IF Len(last_points_times) = 0 THEN AssemblyFailed("IndexError")
    ELSE from_times_and_values(
            RangeIndex(last_points_times[1],
                       last_points_times[Len(last_points_times)] + 1,
                       freq * stride),
            last_points_values, freq * stride)

\* The first value of a forecast in the place of its last
first_value(forecast) == [of |-> forecast, at |-> forecast.first]

\* forecast.all_values()[-1]: the last value of a forecast, named by the
\* forecast it belongs to
last_value(forecast) == [of |-> forecast, at |-> forecast.last]

\* After the loop: the last points as one series, or the list of forecasts.
HistoricalForecastsReturn ==
    /\ pc = "loop"
    /\ counter = Len(pred_times)
    /\ \E last_points_only \in BOOLEAN, has_datetime_index \in BOOLEAN :
          IF last_points_only
          THEN LET r == assemble_last_points(
                          [i \in 1..Len(forecasts) |-> forecasts[i].last],
                          [i \in 1..Len(forecasts) |-> last_value(forecasts[i])],
                          Freq, args.stride, has_datetime_index)
               IN  IF r.ok
                   THEN /\ pc' = "done"
                        /\ UNCHANGED err
                        /\ result' = [last_points_only |-> TRUE,
                                      times |-> r.times, values |-> r.values,
                                      step |-> r.step, items |-> <<>>]
                   ELSE /\ pc' = "error"
                        /\ err' = r.err
                        /\ UNCHANGED result
          ELSE /\ pc' = "done"
               /\ UNCHANGED err
               /\ result' = [last_points_only |-> FALSE, times |-> <<>>,
                             values |-> <<>>, step |-> 0, items |-> forecasts]
    /\ UNCHANGED <<kind, incl, model, args, pre, pred_times, counter, log,
                   forecasts, previous, backtest>>
    /\ UNCHANGED othervars

\* The number of iterations of the call that fit the model
Refits == Cardinality({i \in 1..Len(log) : log[i].refit})

\* The caller keeps the result and calls historical_forecasts once more on
\* the same model with the same arguments: the checks, then the forecast
\* origins.
HistoricalForecastsAgain ==
    /\ pc = "done"
    /\ ~previous.called
    /\ previous' = [called |-> TRUE, result |-> result,
                    fitted_before |-> pre.fit_called, refits |-> Refits,
                    model_before |-> pre, model_after |-> model]
    /\ LET e == ConfigError(kind, args)
       IN  /\ err' = e
           /\ pc' = IF e = "none" THEN "loop" ELSE "error"
           /\ pred_times' =
                 IF e = "none"
                 THEN build_pred_times(
                         get_timestamp_at_point(args.series, args.start),
                         get_last_prediction_time(args.series,
                                                  args.forecast_horizon,
                                                  args.overlap_end),
                         Freq * args.stride)
                 ELSE <<>>
    /\ pre' = model
    /\ counter' = 0
    /\ log' = <<>>
    /\ forecasts' = <<>>
    /\ result' = NoResult
    /\ UNCHANGED <<kind, incl, model, args, backtest>>
    /\ UNCHANGED othervars

Next ==
    \/ UserFit
    \/ HistoricalForecastsCall
    \/ HistoricalForecastsIterate
    \/ HistoricalForecastsReturn

Spec == Init /\ [][Next]_vars

\* The series of test_historical_forecast: 100 points
ScenarioLen == 100

ScenarioSeries == MkSeries(0, (ScenarioLen - 1) * Freq)

\* start = 0.8 as in the test, and 0.75
ScenarioStarts == {StartFloat(8, 10), StartFloat(3, 4)}

\* historical_forecasts as test_historical_forecast calls it, up to the loop:
\* a float start on the series of 100 points, retrain = True, with and
\* without past covariates.
HistoricalForecastsScenarioCall ==
    /\ pc = "idle"
    /\ \E pcov \in (IF kind = "Global" THEN {NoneTS, ScenarioSeries} ELSE {NoneTS}),
          st \in ScenarioStarts, h \in 1..MaxHorizon, sd \in 1..MaxStride,
          oe \in BOOLEAN :
          LET a == [series |-> ScenarioSeries, past_covariates |-> pcov,
                    future_covariates |-> NoneTS,
                    train_length |-> TrainLengthNone,
                    start |-> st, forecast_horizon |-> h, stride |-> sd,
                    retrain |-> RetrainBool(TRUE), overlap_end |-> oe]
              e == ConfigError(kind, a)
          IN  /\ args' = a
              /\ err' = e
              /\ pc' = IF e = "none" THEN "loop" ELSE "error"
              /\ pred_times' =
                    IF e = "none"
                    THEN build_pred_times(
                            get_timestamp_at_point(a.series, a.start),
                            get_last_prediction_time(a.series, h, oe),
                            Freq * sd)
                    ELSE <<>>
    /\ pre' = model
    /\ counter' = 0
    /\ log' = <<>>
    /\ forecasts' = <<>>
    /\ UNCHANGED <<kind, incl, model, result, previous, backtest>>
    /\ UNCHANGED othervars

NextScenario ==
    \/ UserFit
    \/ HistoricalForecastsScenarioCall
    \/ HistoricalForecastsIterate
    \/ HistoricalForecastsReturn

SpecScenario == Init /\ [][NextScenario]_vars

\* ------------------------------------------------------------- backtest
\* metric_f(series, forecast): the score, named by what it was computed from
metric_value(metric_f, actual, forecast) ==
    [tag |-> "score", metric |-> metric_f, actual |-> actual,
     forecast |-> forecast]

\* a python list or an array row
List(items) == [tag |-> "list", items |-> items]

\* reduction(column): one number, named by what it was computed from
reduced(reduction, column) ==
    [tag |-> "reduced", by |-> reduction, over |-> column]

\* the metrics backtest can be given: one function, a list of one, a list
\* of two
MetricArguments ==
    {[is_list |-> FALSE, fs |-> <<"mape">>],
     [is_list |-> TRUE, fs |-> <<"mape">>],
     [is_list |-> TRUE, fs |-> <<"mape", "mae">>]}

Reductions == {"mean", "median", "None"}

\* if not isinstance(metric, list): metric = [metric]
metric_list(metric) == metric.fs

\* The errors before the reduction: one score per metric on the assembled
\* series, or one row per forecast with one score per metric.
backtest_errors(series, forecasts_returned, last_points_only, metric) ==
    IF last_points_only
    THEN List([j \in 1..Len(metric) |->
                  metric_value(metric[j], series, forecasts_returned)])
    ELSE List([i \in 1..Len(forecasts_returned) |->
                  List([j \in 1..Len(metric) |->
                          metric_value(metric[j], series,
                                       forecasts_returned[i])])])

\* The reduction applied along the metrics of each forecast
reduction_axis1(reduction, errors, n_metrics) ==
    List([i \in 1..Len(errors.items) |->
             reduced(reduction, errors.items[i].items)])

\* reduction(np.array(errors), axis=0): one value per metric, over the
\* forecasts
reduction_axis0(reduction, errors, n_metrics) ==
    List([j \in 1..n_metrics |->
             reduced(reduction,
                     [i \in 1..Len(errors.items) |-> errors.items[i].items[j]])])

\* The errors with the reduction applied to the scores of the assembled
\* series as well
backtest_reduce_last_points(errors, last_points_only, reduction, n_metrics) ==
    IF reduction = "None" THEN errors
    ELSE IF last_points_only THEN List(<<reduced(reduction, errors.items)>>)
    ELSE reduction_axis0(reduction, errors, n_metrics)

\* The errors after the reduction, which only the branch of the whole
\* forecasts applies, and only when a reduction is given.
backtest_reduce(errors, last_points_only, reduction, n_metrics) ==
    IF ~last_points_only /\ reduction # "None"
    THEN reduction_axis0(reduction, errors, n_metrics)
    ELSE errors

\* The value returned with the first element unwrapped whatever the
\* number of metrics
backtest_return_first(errors, n_metrics) == errors.items[1]

\* return errors if len(metric) > 1 else errors[0]
backtest_return(errors, n_metrics) ==
    IF n_metrics > 1 THEN errors ELSE errors.items[1]

\* backtest up to the loop of historical_forecasts: the arguments are handed
\* through; retrain is a bool, no covariates, no train_length.
BacktestCall ==
    /\ pc = "idle"
    /\ \E st \in 1..(SeriesLen - 1), h \in 1..MaxHorizon, sd \in 1..MaxStride,
          rt \in {RetrainBool(TRUE), RetrainBool(FALSE)}, oe \in BOOLEAN :
          LET a == [series |-> TheSeries, past_covariates |-> NoneTS,
                    future_covariates |-> NoneTS,
                    train_length |-> TrainLengthNone,
                    start |-> StartInt(st), forecast_horizon |-> h,
                    stride |-> sd, retrain |-> rt, overlap_end |-> oe]
              e == ConfigError(kind, a)
          IN  /\ args' = a
              /\ err' = e
              /\ pc' = IF e = "none" THEN "loop" ELSE "error"
              /\ pred_times' =
                    IF e = "none"
                    THEN build_pred_times(
                            get_timestamp_at_point(a.series, a.start),
                            get_last_prediction_time(a.series, h, oe),
                            Freq * sd)
                    ELSE <<>>
    /\ pre' = model
    /\ counter' = 0
    /\ log' = <<>>
    /\ forecasts' = <<>>
    /\ UNCHANGED <<kind, incl, model, result, previous, backtest>>
    /\ UNCHANGED othervars

\* backtest after historical_forecasts returned: the metrics, the
\* reduction, the value returned.
BacktestReturn ==
    /\ pc = "done"
    /\ ~backtest.called
    /\ \E metric \in MetricArguments, reduction \in Reductions :
          LET fs == metric_list(metric)
              returned == IF result.last_points_only
                          THEN [times |-> result.times,
                                values |-> result.values,
                                step |-> result.step]
                          ELSE result.items
              raw == backtest_errors(args.series, returned,
                                     result.last_points_only, fs)
              errors == backtest_reduce(raw, result.last_points_only,
                                        reduction, Len(fs))
          IN  backtest' = [called |-> TRUE, metric |-> fs,
                           is_list |-> metric.is_list,
                           reduction |-> reduction, raw |-> raw,
                           returned |-> backtest_return(errors, Len(fs))]
    /\ UNCHANGED <<kind, incl, model, pc, args, pre, pred_times, counter,
                   log, forecasts, err, result, previous>>
    /\ UNCHANGED othervars

NextBacktest ==
    \/ UserFit
    \/ BacktestCall
    \/ HistoricalForecastsIterate
    \/ HistoricalForecastsReturn
    \/ BacktestReturn

SpecBacktest == Init /\ [][NextBacktest]_vars

\* historical_forecasts up to the loop, called with retrain a bool and with
\* train_length unset or set to the largest window.
HistoricalForecastsBooleanCall ==
    /\ pc = "idle"
    /\ \E pcov \in PastCovariates(kind), fcov \in FutureCovariates(kind),
          tl \in {TrainLengthNone, TrainLengthInt(MaxTrainLength)},
          st \in 1..(SeriesLen - 1), h \in 1..MaxHorizon, sd \in 1..MaxStride,
          rt \in {RetrainBool(TRUE), RetrainBool(FALSE)}, oe \in BOOLEAN :
          LET a == [series |-> TheSeries, past_covariates |-> pcov,
                    future_covariates |-> fcov, train_length |-> tl,
                    start |-> StartInt(st), forecast_horizon |-> h,
                    stride |-> sd, retrain |-> rt, overlap_end |-> oe]
              e == ConfigError(kind, a)
          IN  /\ args' = a
              /\ err' = e
              /\ pc' = IF e = "none" THEN "loop" ELSE "error"
              /\ pred_times' =
                    IF e = "none"
                    THEN build_pred_times(
                            get_timestamp_at_point(a.series, a.start),
                            get_last_prediction_time(a.series, h, oe),
                            Freq * sd)
                    ELSE <<>>
    /\ pre' = model
    /\ counter' = 0
    /\ log' = <<>>
    /\ forecasts' = <<>>
    /\ UNCHANGED <<kind, incl, model, result, previous, backtest>>
    /\ UNCHANGED othervars

\* historical_forecasts up to the loop, with retrain a callable whose
\* parameters name both, one or none of the covariates.
HistoricalForecastsCallableCall ==
    /\ pc = "idle"
    /\ \E pcov \in PastCovariates(kind), fcov \in FutureCovariates(kind),
          tl \in {TrainLengthNone, TrainLengthInt(MaxTrainLength)},
          st \in 1..(SeriesLen - 1), h \in 1..MaxHorizon, sd \in 1..MaxStride,
          sig \in SUBSET CovariateNames, oe \in BOOLEAN :
          LET a == [series |-> TheSeries, past_covariates |-> pcov,
                    future_covariates |-> fcov, train_length |-> tl,
                    start |-> StartInt(st), forecast_horizon |-> h,
                    stride |-> sd, retrain |-> RetrainCallableOf(sig),
                    overlap_end |-> oe]
              e == ConfigError(kind, a)
          IN  /\ args' = a
              /\ err' = e
              /\ pc' = IF e = "none" THEN "loop" ELSE "error"
              /\ pred_times' =
                    IF e = "none"
                    THEN build_pred_times(
                            get_timestamp_at_point(a.series, a.start),
                            get_last_prediction_time(a.series, h, oe),
                            Freq * sd)
                    ELSE <<>>
    /\ pre' = model
    /\ counter' = 0
    /\ log' = <<>>
    /\ forecasts' = <<>>
    /\ UNCHANGED <<kind, incl, model, result, previous, backtest>>
    /\ UNCHANGED othervars

NextCallable ==
    \/ UserFit
    \/ HistoricalForecastsCallableCall
    \/ HistoricalForecastsIterate
    \/ HistoricalForecastsReturn

\* The model classes whose calls with a callable pass the checks
InitCallable == Init /\ supports_non_retrainable_historical_forecasts(kind)

SpecCallable == InitCallable /\ [][NextCallable]_vars

\* The caller may repeat a call that returned.
NextTwice ==
    \/ UserFit
    \/ HistoricalForecastsBooleanCall
    \/ HistoricalForecastsIterate
    \/ HistoricalForecastsReturn
    \/ HistoricalForecastsAgain

\* The model classes whose calls with retrain = False pass the checks
InitTwice == Init /\ supports_non_retrainable_historical_forecasts(kind)

SpecTwice == InitTwice /\ [][NextTwice]_vars

\* ------------------------------------------------------------ gridsearch
\* parameters: a first hyper-parameter with two values, a second with one
\* value or with MaxValues values
ParameterGrids ==
    {<<<<1, 2>>, <<1>>>>, <<<<1, 2>>, [i \in 1..MaxValues |-> i]>>}

GsNone == [type |-> "none", num |-> 0, den |-> 1]

GsInt(n) == [type |-> "int", num |-> n, den |-> 1]

GsFloat(num, den) == [type |-> "float", num |-> num, den |-> den]

\* n_random_samples: None, integers in and out of range, the ratios 0, 0.3,
\* 0.5, 1.0 and 1.5
RandomSamples ==
    {GsNone, GsInt(0), GsInt(1), GsInt(2), GsInt(2 * MaxValues + 1),
     GsFloat(0, 1), GsFloat(3, 10), GsFloat(1, 2), GsFloat(1, 1),
     GsFloat(3, 2)}

\* list(product(*parameters.values())): the first list varies slowest
RECURSIVE product(_)
product(lists) ==
    IF lists = <<>> THEN << <<>> >>
    ELSE LET rest == product(Tail(lists))
             m == Len(rest)
         IN  [i \in 1..(Len(Head(lists)) * m) |->
                 <<Head(lists)[((i - 1) \div m) + 1]>> \o rest[((i - 1) % m) + 1]]

\* The number of true values among the three switches taken as "at least one"
modes_selected_any(forecast_horizon_given, val_series_given, use_fitted_values) ==
    IF forecast_horizon_given \/ val_series_given \/ use_fitted_values
    THEN 1 ELSE 0

\* (forecast_horizon is not None) + (val_series is not None) + use_fitted_values
modes_selected(forecast_horizon_given, val_series_given, use_fitted_values) ==
    (IF forecast_horizon_given THEN 1 ELSE 0)
        + (IF val_series_given THEN 1 ELSE 0)
        + (IF use_fitted_values THEN 1 ELSE 0)

\* Draws of k elements in which an element may come back
sample_with_replacement(params, k) ==
    {[i \in 1..k |-> params[f[i]]] : f \in [1..k -> 1..Len(params)]}

\* random.sample(params, k): every list of k elements taken at pairwise
\* distinct positions of params, in any order
sample(params, k) ==
    {[i \in 1..k |-> params[f[i]]] :
        f \in {g \in [1..k -> 1..Len(params)] :
                  \A i, j \in 1..k : i # j => g[i] # g[j]}}

\* round(num / den * total) as Python rounds: to the nearest integer, a half
\* to the even neighbour
sample_size_rounded(num, den, total) ==
    LET q == (num * total) \div den
        r == (num * total) % den
    IN  IF 2 * r > den THEN q + 1
        ELSE IF 2 * r < den THEN q
        ELSE IF q % 2 = 0 THEN q ELSE q + 1

\* int(n_random_samples * len(params)) for the ratio num / den
sample_size(num, den, total) == (num * total) \div den

\* _sample_params: the error of raise_if_not, or the number of elements it
\* asks random.sample for
sample_params(params, n_random_samples) ==
    IF n_random_samples.type = "int"
    THEN IF n_random_samples.num > 0 /\ n_random_samples.num <= Len(params)
         THEN [ok |-> TRUE, size |-> n_random_samples.num]
         ELSE [ok |-> FALSE, size |-> 0]
    ELSE IF /\ n_random_samples.num > 0
            /\ n_random_samples.num <= n_random_samples.den
         THEN [ok |-> TRUE,
               size |-> sample_size(n_random_samples.num,
                                    n_random_samples.den, Len(params))]
         ELSE [ok |-> FALSE, size |-> 0]

\* min(errors)
min_error(errors) ==
    CHOOSE e \in {errors[i] : i \in 1..Len(errors)} :
        \A i \in 1..Len(errors) : e <= errors[i]

\* The last position of a value in a list
list_index_last(errors, e) ==
    CHOOSE i \in 1..Len(errors) :
        errors[i] = e /\ \A j \in (i + 1)..Len(errors) : errors[j] # e

\* errors.index(e): the first position of a value in a list
list_index(errors, e) ==
    CHOOSE i \in 1..Len(errors) :
        errors[i] = e /\ \A j \in 1..(i - 1) : errors[j] # e

\* model_class(**params): a new instance, not fit
model_class(params) == [model_params |-> params, fit_called |-> FALSE]

GsFailed(g, e) == [g EXCEPT !.pc = "error", !.err = e]

\* gridsearch up to the evaluation: the check of the mode, the checks of the
\* mode chosen, the cross product, the random selection.
GridsearchCall ==
    /\ gs.pc = "idle"
    /\ \E fh \in BOOLEAN, vs \in BOOLEAN, ufv \in BOOLEAN,
          has_fitted_values \in BOOLEAN, same_width \in BOOLEAN,
          parameters \in ParameterGrids, nrs \in RandomSamples :
          LET g == [pc |-> "evaluating", err |-> "none",
                    forecast_horizon_given |-> fh, val_series_given |-> vs,
                    use_fitted_values |-> ufv, parameters |-> parameters,
                    n_random_samples |-> nrs,
                    params_cross_product |-> <<>>, instantiated |-> <<>>,
                    errors |-> <<>>, returned |-> <<>>]
              all == product(parameters)
              drawn == sample_params(all, nrs)
          IN  IF modes_selected(fh, vs, ufv) # 1
              THEN gs' = GsFailed(g, "ModeError")
              ELSE IF ufv /\ ~has_fitted_values
              THEN gs' = GsFailed(g, "NoFittedValues")
              ELSE IF ~ufv /\ vs /\ ~same_width
              THEN gs' = GsFailed(g, "WidthError")
              ELSE IF nrs.type = "none"
              THEN gs' = [g EXCEPT !.params_cross_product = all]
              ELSE IF ~drawn.ok
              THEN gs' = GsFailed(g, "SampleError")
              ELSE /\ drawn.size <= MaxSample
                   /\ \E l \in sample(all, drawn.size) :
                         gs' = [g EXCEPT !.params_cross_product = l]
    /\ UNCHANGED <<hfvars, meta, life, scorer, agg>>

\* _evaluate_combination for the next combination: a new model of the class
\* is built from it and its error computed.
GridsearchEvaluate ==
    /\ gs.pc = "evaluating"
    /\ Len(gs.errors) < Len(gs.params_cross_product)
    /\ \E error \in 1..MaxError :
          LET c == gs.params_cross_product[Len(gs.errors) + 1]
          IN  gs' = [gs EXCEPT !.instantiated = Append(@, model_class(c)),
                               !.errors = Append(@, error)]
    /\ UNCHANGED <<hfvars, meta, life, scorer, agg>>

\* gridsearch after the evaluation: the minimum, its first position, the
\* model built from the combination there.
GridsearchReturn ==
    /\ gs.pc = "evaluating"
    /\ Len(gs.errors) = Len(gs.params_cross_product)
    /\ IF gs.errors = <<>>
       THEN gs' = GsFailed(gs, "ValueError")
       ELSE LET e == min_error(gs.errors)
                best == gs.params_cross_product[list_index(gs.errors, e)]
            IN  gs' = [gs EXCEPT !.pc = "done",
                                 !.returned = <<model_class(best), best, e>>]
    /\ UNCHANGED <<hfvars, meta, life, scorer, agg>>

\* one model class, whose kind does not enter the search
InitGridsearch == Init /\ kind = "Global" /\ incl

NextGridsearch ==
    \/ GridsearchCall
    \/ GridsearchEvaluate
    \/ GridsearchReturn

SpecGridsearch == InitGridsearch /\ [][NextGridsearch]_vars

\* -------------------------------------------------------- model creation
\* The class attribute _model_call is <<>> while the class has none, <<p>>
\* while it holds the parameters p.  A construction is ModelMeta.__call__
\* (the parameters stored on the class), then, within __init__,
\* _extract_model_creation_params: the deep copy of the attribute read
\* through the instance, then its deletion from the class.  Constructions
\* of one class that run side by side interleave at these three steps.
Constructions == 1..NumConstructions

ConstructionFailed(t, e) ==
    [meta EXCEPT !.threads[t].pc = "failed", !.threads[t].err = e]

\* cls._model_call = all_params
ModelMetaCall(t) ==
    /\ meta.threads[t].pc = "idle"
    /\ \E all_params \in 1..MaxParams :
          meta' = [meta EXCEPT
                     !.model_call = <<all_params>>,
                     !.threads[t] = [pc |-> "called",
                                     all_params |-> all_params,
                                     model_params |-> <<>>,
                                     err |-> "none"]]
    /\ UNCHANGED <<hfvars, gs, life, scorer, agg>>

\* model_params = copy.deepcopy(self._model_call)
ExtractModelCreationParamsCopy(t) ==
    /\ meta.threads[t].pc = "called"
    /\ meta' = IF meta.model_call = <<>>
               THEN ConstructionFailed(t, "AttributeError")
               ELSE [meta EXCEPT !.threads[t].pc = "copied",
                                 !.threads[t].model_params = meta.model_call]
    /\ UNCHANGED <<hfvars, gs, life, scorer, agg>>

\* del self.__class__._model_call
ExtractModelCreationParamsDel(t) ==
    /\ meta.threads[t].pc = "copied"
    /\ meta' = IF meta.model_call = <<>>
               THEN ConstructionFailed(t, "AttributeError")
               ELSE [meta EXCEPT !.model_call = <<>>,
                                 !.threads[t].pc = "constructed"]
    /\ UNCHANGED <<hfvars, gs, life, scorer, agg>>

InitModelMeta == Init /\ kind = "Global" /\ incl

NextModelMeta ==
    \E t \in Constructions :
        \/ ModelMetaCall(t)
        \/ ExtractModelCreationParamsCopy(t)
        \/ ExtractModelCreationParamsDel(t)

SpecModelMeta == InitModelMeta /\ [][NextModelMeta]_vars

\* ------------------------------------------------ fit / predict lifecycle
\* predict without the check that the model was fit
ForecastingModel_predict_unguarded(m, n, num_samples, is_probabilistic) ==
    IF ~is_probabilistic /\ num_samples > 1
    THEN [ok |-> FALSE, err |-> "NumSamples", forecast |-> NoForecast]
    ELSE [ok |-> TRUE, err |-> "none",
          forecast |-> IF m.training_series = NoneTS
                       THEN [first |-> Freq, last |-> n * Freq]
                       ELSE build_forecast_series(m.training_series, n)]

\* ForecastingModel.predict: the fitted check, the num_samples check, then
\* the n points after the end of the training series.
ForecastingModel_predict(m, n, num_samples, is_probabilistic) ==
    IF ~m.fit_called
    THEN [ok |-> FALSE, err |-> "NotFitted", forecast |-> NoForecast]
    ELSE IF ~is_probabilistic /\ num_samples > 1
         THEN [ok |-> FALSE, err |-> "NumSamples", forecast |-> NoForecast]
         ELSE [ok |-> TRUE, err |-> "none",
               forecast |-> build_forecast_series(m.training_series, n)]

\* the series a user fits on: 1 to SeriesLen points
FitSeries == {MkSeries(0, (k - 1) * Freq) : k \in 1..SeriesLen}

\* ForecastingModel.__init__ of a class that is probabilistic or not
LifecycleConstruct ==
    /\ life.pc = "idle"
    /\ \E is_probabilistic \in BOOLEAN :
          life' = [pc |-> "constructed", model |-> NewModel,
                   is_probabilistic |-> is_probabilistic, calls |-> <<>>]
    /\ UNCHANGED <<hfvars, gs, meta, scorer, agg>>

\* model.fit(series)
LifecycleFit ==
    /\ life.pc = "constructed"
    /\ Len(life.calls) < MaxCalls
    /\ \E series \in FitSeries :
          LET r == ForecastingModel_fit(life.model, series)
          IN  life' = [life EXCEPT
                         !.model = r.m,
                         !.calls = Append(@, [op |-> "fit", ok |-> r.ok,
                                              err |-> IF r.ok THEN "none"
                                                      ELSE "TooShort",
                                              series |-> series, n |-> 0,
                                              num_samples |-> 0,
                                              forecast |-> NoForecast,
                                              before |-> life.model,
                                              after |-> r.m])]
    /\ UNCHANGED <<hfvars, gs, meta, scorer, agg>>

\* model.predict(n, num_samples)
LifecyclePredict ==
    /\ life.pc = "constructed"
    /\ Len(life.calls) < MaxCalls
    /\ \E n \in 1..MaxHorizon, num_samples \in 1..MaxNumSamples :
          LET r == ForecastingModel_predict(life.model, n, num_samples,
                                            life.is_probabilistic)
          IN  life' = [life EXCEPT
                         !.calls = Append(@, [op |-> "predict", ok |-> r.ok,
                                              err |-> r.err,
                                              series |-> NoneTS, n |-> n,
                                              num_samples |-> num_samples,
                                              forecast |-> r.forecast,
                                              before |-> life.model,
                                              after |-> life.model])]
    /\ UNCHANGED <<hfvars, gs, meta, scorer, agg>>

InitLifecycle == Init /\ kind = "Local" /\ incl

NextLifecycle ==
    \/ LifecycleConstruct
    \/ LifecycleFit
    \/ LifecyclePredict

SpecLifecycle == InitLifecycle /\ [][NextLifecycle]_vars

\* ------------------------------------------------------- anomaly scorers
\* A series given to a scorer: len time points and one value per sample,
\* the same at every time point.  One sample is a deterministic series,
\* three samples a stochastic one.
AdSeries(l, samples) == [len |-> l, width |-> 1, start |-> 0, samples |-> samples]

\* the same with w components, all of the same values
WideSeries(l, w, samples) ==
    [len |-> l, width |-> w, start |-> 0, samples |-> samples]

\* n_samples of the series given: deterministic, or stochastic (odd, so
\* that the median is one of the samples)
SampleCounts == {1, 3}

\* the values of a sample
SampleValues == {0, 1}

AdSeriesSet ==
    {AdSeries(l, samples) :
        l \in 1..MaxScorerLen,
        samples \in UNION {[1..k -> SampleValues] : k \in SampleCounts}}

is_deterministic(s) == Len(s.samples) = 1

\* the median of an odd number of samples
median(samples) ==
    CHOOSE v \in {samples[i] : i \in 1..Len(samples)} :
        /\ 2 * Cardinality({i \in 1..Len(samples) : samples[i] < v})
              < Len(samples)
        /\ 2 * Cardinality({i \in 1..Len(samples) : samples[i] > v})
              < Len(samples)

\* series.quantile_timeseries(quantile=0.5)
quantile_timeseries(s) == [s EXCEPT !.samples = <<median(s.samples)>>]

\* _assert_deterministic: the series it returns and the warnings it logs
assert_deterministic(s, name_series) ==
    IF ~is_deterministic(s)
    THEN [series |-> quantile_timeseries(s), warnings |-> <<name_series>>]
    ELSE [series |-> s, warnings |-> <<>>]

Abs(x) == IF x < 0 THEN -x ELSE x

\* _diff_series on the common time points of two series of one sample count
diff_series(diff_fn, series_1, series_2) ==
    [len |-> Min(series_1.len, series_2.len),
     width |-> series_1.width,
     start |-> 0,
     samples |-> [i \in 1..Len(series_1.samples) |->
                     IF diff_fn = "abs_diff"
                     THEN Abs(series_1.samples[i] - series_2.samples[i])
                     ELSE series_1.samples[i] - series_2.samples[i]]]

ScorerRaise(op, inputs, e, warnings) ==
    [op |-> op, ok |-> FALSE, err |-> e, inputs |-> inputs,
     warnings |-> warnings, fit_core |-> <<>>, score_core |-> <<>>]

\* FittableAnomalyScorer.fit on one series: the window check, the call of
\* _assert_deterministic whose result is not kept, then _fit_core on the
\* list of the series as given.
FittableAnomalyScorer_fit(sc, op, inputs, s, warnings) ==
    IF ~(sc.window <= s.len)
    THEN [sc EXCEPT !.last = ScorerRaise(op, inputs, "WindowError", warnings)]
    ELSE [sc EXCEPT
            !.fit_called = TRUE,
            !.last = [op |-> op, ok |-> TRUE, err |-> "none",
                      inputs |-> inputs,
                      warnings |-> warnings
                                     \o assert_deterministic(s, "series").warnings,
                      fit_core |-> <<s>>, score_core |-> <<>>]]

\* FittableAnomalyScorer.score on one series: the fitted check, the window
\* check, then _score_core on what _assert_deterministic returns.
FittableAnomalyScorer_score(sc, op, inputs, s, warnings) ==
    IF ~sc.fit_called
    THEN [sc EXCEPT !.last = ScorerRaise(op, inputs, "NotFitted", warnings)]
    ELSE IF ~(sc.window <= s.len)
         THEN [sc EXCEPT
                 !.last = ScorerRaise(op, inputs, "WindowError", warnings)]
         ELSE LET d == assert_deterministic(s, "series")
              IN  [sc EXCEPT
                     !.last = [op |-> op, ok |-> TRUE, err |-> "none",
                               inputs |-> inputs,
                               warnings |-> warnings \o d.warnings,
                               fit_core |-> <<>>,
                               score_core |-> <<d.series>>]]

\* FittableAnomalyScorer.fit_from_prediction on one pair of series
FittableAnomalyScorer_fit_from_prediction(sc, s1, s2) ==
    LET d1 == assert_deterministic(s1, "actual_series")
        d2 == assert_deterministic(s2, "pred_series")
    IN  FittableAnomalyScorer_fit(sc, "fit_from_prediction", <<s1, s2>>,
                                  diff_series(sc.diff_fn, d1.series, d2.series),
                                  d1.warnings \o d2.warnings)

\* FittableAnomalyScorer.score_from_prediction on one pair of series
FittableAnomalyScorer_score_from_prediction(sc, s1, s2) ==
    IF ~sc.fit_called
    THEN [sc EXCEPT !.last = ScorerRaise("score_from_prediction", <<s1, s2>>,
                                         "NotFitted", <<>>)]
    ELSE LET d1 == assert_deterministic(s1, "actual_series")
             d2 == assert_deterministic(s2, "pred_series")
             diff == diff_series(sc.diff_fn, d1.series, d2.series)
             w == d1.warnings \o d2.warnings
         IN  IF ~(sc.window <= diff.len)
             THEN [sc EXCEPT
                     !.last = ScorerRaise("score_from_prediction", <<s1, s2>>,
                                          "WindowError", w)]
             ELSE FittableAnomalyScorer_score(sc, "score_from_prediction",
                                              <<s1, s2>>, diff, w)

\* FittableAnomalyScorer.__init__
ScorerConstruct ==
    /\ scorer.pc = "idle"
    /\ \E window \in 1..MaxScorerLen, diff_fn \in {"abs_diff", "diff"} :
          scorer' = [pc |-> "constructed", window |-> window,
                     diff_fn |-> diff_fn, fit_called |-> FALSE,
                     last |-> NoScorerCall]
    /\ UNCHANGED <<hfvars, gs, meta, life, agg>>

ScorerFit ==
    /\ scorer.pc = "constructed"
    /\ \E s \in AdSeriesSet :
          scorer' = FittableAnomalyScorer_fit(scorer, "fit", <<s>>, s, <<>>)
    /\ UNCHANGED <<hfvars, gs, meta, life, agg>>

ScorerScore ==
    /\ scorer.pc = "constructed"
    /\ \E s \in AdSeriesSet :
          scorer' = FittableAnomalyScorer_score(scorer, "score", <<s>>, s, <<>>)
    /\ UNCHANGED <<hfvars, gs, meta, life, agg>>

ScorerFitFromPrediction ==
    /\ scorer.pc = "constructed"
    /\ \E s1, s2 \in AdSeriesSet :
          /\ s1.len = s2.len
          /\ scorer' = FittableAnomalyScorer_fit_from_prediction(scorer, s1, s2)
    /\ UNCHANGED <<hfvars, gs, meta, life, agg>>

ScorerScoreFromPrediction ==
    /\ scorer.pc = "constructed"
    /\ \E s1, s2 \in AdSeriesSet :
          /\ s1.len = s2.len
          /\ scorer' = FittableAnomalyScorer_score_from_prediction(scorer, s1, s2)
    /\ UNCHANGED <<hfvars, gs, meta, life, agg>>

InitScorer == Init /\ kind = "Local" /\ incl

NextScorer ==
    \/ ScorerConstruct
    \/ ScorerFit
    \/ ScorerScore
    \/ ScorerFitFromPrediction
    \/ ScorerScoreFromPrediction

SpecScorer == InitScorer /\ [][NextScorer]_vars

\* ---------------------------------------------------------------------
\* The scorers with their argument checks: construction with any window,
\* fit and score on lists of series of several widths, the score series.
\* ---------------------------------------------------------------------

\* the window arguments a caller may pass: a Python type and a value
WindowArgs ==
    {[type |-> "int", value |-> v] : v \in (-1)..MaxScorerLen}
        \cup {[type |-> "float", value |-> 1], [type |-> "bool", value |-> 1],
              [type |-> "NoneType", value |-> 0]}

\* the series handed to a checked scorer: deterministic or stochastic, of
\* every length and width
CheckedSeries ==
    {WideSeries(l, w, samples) :
        l \in 1..MaxScorerLen, w \in 1..MaxWidth,
        samples \in {<<0>>, <<0, 1, 1>>}}

\* a series or a sequence of series, as _to_list returns it
SeriesLists == UNION {[1..k -> CheckedSeries] : k \in 1..2}

\* the (actual, prediction) pairs _sanity_check_2series accepts: one width
\* and one time index
SeriesPairs ==
    {p \in CheckedSeries \X CheckedSeries :
        p[1].width = p[2].width /\ p[1].len = p[2].len}

\* the time index of a score series: its first position in the input's
\* index and its number of points
NoScores == <<>>

NoCheckedCall ==
    [op |-> "none", ok |-> TRUE, err |-> "none", lens |-> <<>>,
     scores |-> NoScores]

CheckedRaise(op, lens, e) ==
    [op |-> op, ok |-> FALSE, err |-> e, lens |-> lens, scores |-> NoScores]

CheckedReturn(op, lens, scores) ==
    [op |-> op, ok |-> TRUE, err |-> "none", lens |-> lens, scores |-> scores]

lens_of(list_series) == [i \in 1..Len(list_series) |-> list_series[i].len]

\* AnomalyScorer.__init__: the error it raises, or "none"
AnomalyScorer_init(window) ==
    IF window.type # "int" THEN "WindowType"
    ELSE IF ~(window.value > 0) THEN "WindowValue"
    ELSE "none"

\* FittableAnomalyScorer.__init__
FittableAnomalyScorer_init(window, diff_fn) ==
    IF AnomalyScorer_init(window) # "none"
    THEN [pc |-> "failed", class |-> "Fittable", err |-> AnomalyScorer_init(window),
          arg |-> window,
          window |-> 0, diff_fn |-> "none", trainable |-> TRUE,
          fit_called |-> FALSE, width_trained_on |-> 0, last |-> NoCheckedCall]
    ELSE IF diff_fn \notin {"abs_diff", "diff"}
    THEN [pc |-> "failed", class |-> "Fittable", err |-> "ValueError",
          arg |-> window,
          window |-> window.value, diff_fn |-> "none", trainable |-> TRUE,
          fit_called |-> FALSE, width_trained_on |-> 0, last |-> NoCheckedCall]
    ELSE [pc |-> "constructed", class |-> "Fittable", err |-> "none",
          arg |-> window,
          window |-> window.value, diff_fn |-> diff_fn, trainable |-> TRUE,
          fit_called |-> FALSE, width_trained_on |-> 0, last |-> NoCheckedCall]

\* NLLScorer.__init__ through NonFittableAnomalyScorer.__init__
NLLScorer_init(window) ==
    IF AnomalyScorer_init(window) # "none"
    THEN [pc |-> "failed", class |-> "NLL", err |-> AnomalyScorer_init(window),
          arg |-> window,
          window |-> 0, diff_fn |-> "none", trainable |-> FALSE,
          fit_called |-> FALSE, width_trained_on |-> 0, last |-> NoCheckedCall]
    ELSE [pc |-> "constructed", class |-> "NLL", err |-> "none",
          arg |-> window,
          window |-> window.value, diff_fn |-> "none", trainable |-> FALSE,
          fit_called |-> FALSE, width_trained_on |-> 0, last |-> NoCheckedCall]

\* _check_window_size
check_window_size(window, s) == window <= s.len

\* check_if_fit_called
check_if_fit_called_skipped(sc) == TRUE

check_if_fit_called(sc) == sc.fit_called

\* the first series of the list that fit rejects (0 when it accepts all):
\* from the second series on the width must be that of the first, and
\* every series must be at least as long as the window
first_rejected_by_fit(sc, list_series) ==
    LET bad == {i \in 1..Len(list_series) :
                   \/ i > 1 /\ list_series[i].width # list_series[1].width
                   \/ ~check_window_size(sc.window, list_series[i])}
    IN  IF bad = {} THEN 0 ELSE CHOOSE i \in bad : \A j \in bad : i <= j

\* FittableAnomalyScorer.fit on a list of series: width_trained_on is set
\* at the first series, _fit_called only after _fit_core
fit_list(sc, op, lens, list_series) ==
    LET i == first_rejected_by_fit(sc, list_series)
        seen == [sc EXCEPT !.width_trained_on = list_series[1].width]
    IN  IF i = 0
        THEN [seen EXCEPT !.fit_called = TRUE,
                          !.last = CheckedReturn(op, lens, NoScores)]
        ELSE IF i > 1 /\ list_series[i].width # list_series[1].width
        THEN [seen EXCEPT !.last = CheckedRaise(op, lens, "WidthError")]
        ELSE [seen EXCEPT !.last = CheckedRaise(op, lens, "WindowError")]

\* the time index _score_core gives its result:
\* series._time_index[self.window - 1:]
score_index_from_start(window, s) == [start |-> s.start, len |-> s.len]

score_index(window, s) ==
    [start |-> s.start + (window - 1), len |-> s.len - (window - 1)]

\* the first series of the list that score rejects (0 when it accepts all)
first_rejected_by_score(sc, list_series) ==
    LET bad == {i \in 1..Len(list_series) :
                   \/ ~check_window_size(sc.window, list_series[i])
                   \/ list_series[i].width # sc.width_trained_on}
    IN  IF bad = {} THEN 0 ELSE CHOOSE i \in bad : \A j \in bad : i <= j

\* FittableAnomalyScorer.score on a list of series, after the fitted check
score_list(sc, op, lens, list_series) ==
    LET i == first_rejected_by_score(sc, list_series)
    IN  IF i = 0
        THEN [sc EXCEPT
                !.last = CheckedReturn(op, lens,
                            [k \in 1..Len(list_series) |->
                                score_index(sc.window, list_series[k])])]
        ELSE IF ~check_window_size(sc.window, list_series[i])
        THEN [sc EXCEPT !.last = CheckedRaise(op, lens, "WindowError")]
        ELSE [sc EXCEPT !.last = CheckedRaise(op, lens, "WidthError")]

FittableAnomalyScorer_score_list(sc, op, lens, list_series) ==
    IF ~check_if_fit_called(sc)
    THEN [sc EXCEPT !.last = CheckedRaise(op, lens, "NotFitted")]
    ELSE score_list(sc, op, lens, list_series)

\* what _diff_series returns for a pair, both made deterministic
checked_diff(sc, p) ==
    diff_series(sc.diff_fn, assert_deterministic(p[1], "actual_series").series,
                assert_deterministic(p[2], "pred_series").series)

\* NLLScorer.window_adjustment_series: the rolling mean over full windows
window_adjustment_series(window, s) ==
    IF window = 1
    THEN [start |-> s.start, len |-> s.len]
    ELSE [start |-> s.start + (window - 1), len |-> s.len - (window - 1)]

\* NonFittableAnomalyScorer.score_from_prediction of an NLL scorer on one
\* pair: the window checks, then _score_core_from_prediction
NLLScorer_score_from_prediction(sc, p) ==
    IF ~check_window_size(sc.window, p[1]) \/ ~check_window_size(sc.window, p[2])
    THEN [sc EXCEPT !.last = CheckedRaise("score_from_prediction",
                                          <<p[1].len>>, "WindowError")]
    ELSE IF is_deterministic(p[2])
    THEN [sc EXCEPT !.last = CheckedRaise("score_from_prediction",
                                          <<p[1].len>>, "NotStochastic")]
    ELSE [sc EXCEPT
            !.last = CheckedReturn("score_from_prediction", <<p[1].len>>,
                                   <<window_adjustment_series(sc.window, p[2])>>)]

\* FittableAnomalyScorer(...) of a subclass
CheckedFittableConstruct ==
    /\ scorer.pc = "idle"
    /\ \E window \in WindowArgs, diff_fn \in {"abs_diff", "diff", "other"} :
          scorer' = FittableAnomalyScorer_init(window, diff_fn)
    /\ UNCHANGED <<hfvars, gs, meta, life, agg>>

\* NLLScorer(...) of a subclass
CheckedNLLConstruct ==
    /\ scorer.pc = "idle"
    /\ \E window \in WindowArgs : scorer' = NLLScorer_init(window)
    /\ UNCHANGED <<hfvars, gs, meta, life, agg>>

\* scorer.fit(series)
CheckedFit ==
    /\ scorer.pc = "constructed"
    /\ scorer.class = "Fittable"
    /\ \E list_series \in SeriesLists :
          scorer' = fit_list(scorer, "fit", lens_of(list_series), list_series)
    /\ UNCHANGED <<hfvars, gs, meta, life, agg>>

\* scorer.fit_from_prediction(actual_series, pred_series)
CheckedFitFromPrediction ==
    /\ scorer.pc = "constructed"
    /\ scorer.class = "Fittable"
    /\ \E p \in SeriesPairs :
          scorer' = fit_list(scorer, "fit_from_prediction", <<p[1].len>>,
                             <<checked_diff(scorer, p)>>)
    /\ UNCHANGED <<hfvars, gs, meta, life, agg>>

\* scorer.score(series)
CheckedScore ==
    /\ scorer.pc = "constructed"
    /\ scorer.class = "Fittable"
    /\ \E list_series \in SeriesLists :
          scorer' = FittableAnomalyScorer_score_list(
                        scorer, "score", lens_of(list_series), list_series)
    /\ UNCHANGED <<hfvars, gs, meta, life, agg>>

\* scorer.score_from_prediction(actual_series, pred_series)
CheckedScoreFromPrediction ==
    /\ scorer.pc = "constructed"
    /\ \E p \in SeriesPairs :
          scorer' =
              IF scorer.class = "NLL"
              THEN NLLScorer_score_from_prediction(scorer, p)
              ELSE IF ~check_if_fit_called(scorer)
              THEN [scorer EXCEPT
                      !.last = CheckedRaise("score_from_prediction",
                                            <<p[1].len>>, "NotFitted")]
              ELSE IF ~check_window_size(scorer.window, checked_diff(scorer, p))
              THEN [scorer EXCEPT
                      !.last = CheckedRaise("score_from_prediction",
                                            <<p[1].len>>, "WindowError")]
              ELSE FittableAnomalyScorer_score_list(
                       scorer, "score_from_prediction", <<p[1].len>>,
                       <<checked_diff(scorer, p)>>)
    /\ UNCHANGED <<hfvars, gs, meta, life, agg>>

InitChecked == Init /\ kind = "Local" /\ incl

NextChecked ==
    \/ CheckedFittableConstruct
    \/ CheckedNLLConstruct
    \/ CheckedFit
    \/ CheckedFitFromPrediction
    \/ CheckedScore
    \/ CheckedScoreFromPrediction

SpecChecked == InitChecked /\ [][NextChecked]_vars

\* ---------------------------------------------------------------------
\* PyODScorer: its constructor, and _fit_core and _score_core applied to a
\* scorer that holds the attributes the constructor assigns.
\* ---------------------------------------------------------------------

\* the arguments of PyODScorer(model, window, component_wise, diff_fn);
\* a Python bool is 0 or 1 of type bool
ModelArgs == {"BaseDetector", "other"}

ComponentWiseArgs ==
    {[type |-> "bool", value |-> 0], [type |-> "bool", value |-> 1],
     [type |-> "int", value |-> 1]}

\* the parameters of FittableAnomalyScorer.__init__ after self
FittableInitParams == {"univariate_scorer", "window", "diff_fn"}

\* the keywords of the call super().__init__(...) in PyODScorer.__init__
SuperInitKeywords == {"returns_UTS", "window", "diff_fn"}

\* a call binds when every keyword is a parameter and every parameter
\* without a default is given
call_binds(keywords, params, required) ==
    keywords \subseteq params /\ required \subseteq keywords

\* the detector is one object that every name given to it refers to; a
\* fit of the detector replaces what it was trained on
TheDetector == 1

NotTrained == <<>>

NoPyODScore == [ok |-> TRUE, err |-> "none", series |-> <<>>, used |-> <<>>]

NoPyOD(detector, window, component_wise, diff_fn) ==
    [pc |-> "failed", by |-> "__init__", err |-> "none",
     given |-> [model |-> detector, window |-> window,
                component_wise |-> component_wise, diff_fn |-> diff_fn],
     window |-> 0, component_wise |-> FALSE, univariate_scorer |-> FALSE,
     fit_called |-> FALSE, width_trained_on |-> 0,
     heap |-> [o \in {TheDetector} |-> NotTrained], models |-> <<>>,
     train |-> <<>>, last |-> NoPyODScore]

\* PyODScorer.__init__
PyODScorer_init(detector, window, component_wise, diff_fn) ==
    LET none == NoPyOD(detector, window, component_wise, diff_fn)
        returns_UTS == ~(component_wise.value # 0)
    IN  IF detector # "BaseDetector"
        THEN [none EXCEPT !.err = "ModelType"]
        ELSE IF component_wise.type # "bool"
        THEN [none EXCEPT !.err = "ComponentWiseType"]
        ELSE IF ~call_binds(SuperInitKeywords, FittableInitParams,
                            {"univariate_scorer", "window"})
        THEN [none EXCEPT !.err = "TypeError",
                          !.component_wise = component_wise.value # 0]
        ELSE LET base == FittableAnomalyScorer_init(window, diff_fn)
             IN  IF base.pc = "failed"
                 THEN [none EXCEPT !.err = base.err,
                                   !.component_wise = component_wise.value # 0]
                 ELSE [none EXCEPT !.pc = "constructed",
                                   !.window = base.window,
                                   !.component_wise = component_wise.value # 0,
                                   !.univariate_scorer = returns_UTS]

\* the series of PyODScorer: rows of one value per component
Matrices ==
    UNION {[1..l -> [1..w -> SampleValues]] :
              l \in 1..MaxScorerLen, w \in 1..MaxWidth}

matrix_width(s) == Len(s[1])

\* the windows of all components, as _fit_core and _score_core cut them
\* when not component-wise
windows_of(s, window) ==
    [i \in 1..(Len(s) - window + 1) |-> [j \in 1..window |-> s[i + j - 1]]]

\* the windows of one component (counted from 1)
windows_of_component(s, window, c) ==
    [i \in 1..(Len(s) - window + 1) |-> [j \in 1..window |-> s[i + j - 1][c]]]

\* the loop of _fit_core in component-wise mode: model_width names
\* self.model, which is fitted once per component and appended each time
RECURSIVE fit_components(_, _, _, _)
fit_components(sc, s, c, models) ==
    IF c > sc.width_trained_on
    THEN [sc EXCEPT !.models = models]
    ELSE fit_components(
             [sc EXCEPT !.heap[TheDetector] =
                           windows_of_component(s, sc.window, c)],
             s, c + 1, Append(models, TheDetector))

\* PyODScorer._fit_core on a list of one series
PyODScorer_fit_core(sc, s) ==
    IF ~sc.component_wise
    THEN [sc EXCEPT !.heap[TheDetector] = windows_of(s, sc.window)]
    ELSE fit_components(sc, s, 1, <<>>)

\* FittableAnomalyScorer.fit of a PyODScorer on one series; the score kept
\* in last is that of the latest call, so a fit clears it
PyODScorer_fit(sc, s) ==
    LET seen == [sc EXCEPT !.width_trained_on = matrix_width(s),
                           !.last = NoPyODScore]
    IN  IF ~(sc.window <= Len(s))
        THEN seen
        ELSE [PyODScorer_fit_core(seen, s) EXCEPT !.fit_called = TRUE,
                                                   !.train = s]

\* PyODScorer._score_core: per score component, what the detector whose
\* decision_function is called was trained on; self.models[width] is out
\* of range when a refused fit has raised width_trained_on since
PyODScorer_score_core(sc, s) ==
    IF sc.width_trained_on # matrix_width(s)
    THEN [sc EXCEPT !.last = [ok |-> FALSE, err |-> "WidthError",
                              series |-> s, used |-> <<>>]]
    ELSE IF ~sc.component_wise
    THEN [sc EXCEPT !.last = [ok |-> TRUE, err |-> "none", series |-> s,
                              used |-> <<sc.heap[TheDetector]>>]]
    ELSE IF Len(sc.models) < sc.width_trained_on
    THEN [sc EXCEPT !.last = [ok |-> FALSE, err |-> "IndexError",
                              series |-> s, used |-> <<>>]]
    ELSE [sc EXCEPT !.last = [ok |-> TRUE, err |-> "none", series |-> s,
                              used |-> [c \in 1..sc.width_trained_on |->
                                           sc.heap[sc.models[c]]]]]

\* FittableAnomalyScorer.score of a PyODScorer on one series
PyODScorer_score(sc, s) ==
    IF ~sc.fit_called
    THEN [sc EXCEPT !.last = [ok |-> FALSE, err |-> "NotFitted",
                              series |-> s, used |-> <<>>]]
    ELSE IF ~(sc.window <= Len(s))
    THEN [sc EXCEPT !.last = [ok |-> FALSE, err |-> "WindowError",
                              series |-> s, used |-> <<>>]]
    ELSE PyODScorer_score_core(sc, s)

\* PyODScorer(model, window, component_wise, diff_fn)
PyODConstruct ==
    /\ scorer.pc = "idle"
    /\ \E m \in ModelArgs, window \in WindowArgs,
          component_wise \in ComponentWiseArgs,
          diff_fn \in {"abs_diff", "diff", "other"} :
          scorer' = PyODScorer_init(m, window, component_wise, diff_fn)
    /\ UNCHANGED <<hfvars, gs, meta, life, agg>>

\* a scorer whose attributes are the ones PyODScorer.__init__ and
\* AnomalyScorer.__init__ assign, on which the methods below are called
PyODAttributes ==
    /\ scorer.pc = "idle"
    /\ \E window \in 1..MaxScorerLen, component_wise \in BOOLEAN :
          scorer' =
              [NoPyOD("BaseDetector", [type |-> "int", value |-> window],
                      [type |-> "bool",
                       value |-> IF component_wise THEN 1 ELSE 0],
                      "abs_diff")
                 EXCEPT !.pc = "constructed", !.by = "attributes",
                        !.window = window,
                        !.component_wise = component_wise,
                        !.univariate_scorer = ~component_wise]
    /\ UNCHANGED <<hfvars, gs, meta, life, agg>>

\* scorer.fit(series)
PyODFit ==
    /\ scorer.pc = "constructed"
    /\ \E s \in Matrices : scorer' = PyODScorer_fit(scorer, s)
    /\ UNCHANGED <<hfvars, gs, meta, life, agg>>

\* scorer.score(series)
PyODScore ==
    /\ scorer.pc = "constructed"
    /\ \E s \in Matrices : scorer' = PyODScorer_score(scorer, s)
    /\ UNCHANGED <<hfvars, gs, meta, life, agg>>

InitPyOD == Init /\ kind = "Local" /\ incl

NextPyOD ==
    \/ PyODConstruct
    \/ PyODAttributes
    \/ PyODFit
    \/ PyODScore

SpecPyOD == InitPyOD /\ [][NextPyOD]_vars

\* ----------------------------------------------------------- aggregators
\* A multivariate binary series is the sequence over time of the tuples of
\* its components' values.
BinarySeries ==
    UNION {[1..l -> [1..w -> {0, 1}]] : l \in 1..MaxAggLen, w \in 1..MaxWidth}

\* the sequences of one or two series an aggregator is given
SeriesSequences ==
    {<<s>> : s \in BinarySeries} \cup (BinarySeries \X BinarySeries)

width(s) == Len(s[1])

RECURSIVE Sum(_)
Sum(row) == IF row = <<>> THEN 0 ELSE Head(row) + Sum(Tail(row))

\* s.sum(axis=1): the univariate series of the sums over the components
sum_axis1(s) == [t \in 1..Len(s) |-> <<Sum(s[t])>>]

\* the point is anomalous as soon as one component is
at_least_one(x, w) == IF x >= 1 THEN 1 ELSE 0

\* lambda x: (x >= s.width).astype(float)
at_least_width(x, w) == IF x >= w THEN 1 ELSE 0

\* series.map(fn): fn on every value
map(s, w) == [t \in 1..Len(s) |-> [c \in 1..Len(s[t]) |-> at_least_width(s[t][c], w)]]

\* AndAggregator._predict_core
predict_core(series) ==
    [k \in 1..Len(series) |-> map(sum_axis1(series[k]), width(series[k]))]

\* aggregator.predict on a sequence of binary series
AggregatorPredict ==
    /\ agg.pc = "idle"
    /\ \E series \in SeriesSequences :
          agg' = [pc |-> "done", series |-> series,
                  prediction |-> predict_core(series)]
    /\ UNCHANGED <<hfvars, gs, meta, life, scorer>>

InitAggregator == Init /\ kind = "Local" /\ incl

NextAggregator == AggregatorPredict

SpecAggregator == InitAggregator /\ [][NextAggregator]_vars

\* ------------------------------------ fit / predict with future covariates
\* covariates that stop before the end of any series long enough to train on
ShortSpan == MkSeries(0, Freq)

\* a new target series given to predict
NewTarget == MkSeries(0, (SeriesLen - 2) * Freq)

\* fit of the two classes of future covariates local models
CovariatesModel_fit(m, series, future_covariates) ==
    FutureCovariatesLocalForecastingModel_fit(m, series, future_covariates)

\* predict of the two classes: only the transferable class takes a series
CovariatesModel_predict(k, m, n, series, future_covariates) ==
    IF k = "TransferableFutureCovLocal" /\ series # NoneTS
    THEN TransferableFutureCovariatesLocalForecastingModel_predict(
            m, n, series, future_covariates)
    ELSE FutureCovariatesLocalForecastingModel_predict(m, n, future_covariates)

\* model.fit(series, future_covariates)
FutureCovariatesFit ==
    /\ life.pc = "constructed"
    /\ Len(life.calls) < MaxCalls
    /\ \E series \in FitSeries,
          future_covariates \in {NoneTS, ShortSpan, SameSpan, LongSpan} :
          LET r == CovariatesModel_fit(life.model, series, future_covariates)
          IN  life' = [life EXCEPT
                         !.model = r.m,
                         !.calls = Append(@, [op |-> "fit", ok |-> r.ok,
                                              series |-> series, n |-> 0,
                                              future_covariates |-> future_covariates,
                                              forecast |-> NoForecast,
                                              before |-> life.model,
                                              after |-> r.m])]
    /\ UNCHANGED <<hfvars, gs, meta, scorer, agg>>

\* model.predict(n, future_covariates), or predict(n, series,
\* future_covariates) on the transferable class
FutureCovariatesPredict ==
    /\ life.pc = "constructed"
    /\ Len(life.calls) < MaxCalls
    /\ \E n \in 1..MaxHorizon,
          series \in (IF kind = "TransferableFutureCovLocal"
                      THEN {NoneTS, NewTarget} ELSE {NoneTS}),
          future_covariates \in {NoneTS, LongSpan} :
          LET r == CovariatesModel_predict(kind, life.model, n, series,
                                           future_covariates)
          IN  life' = [life EXCEPT
                         !.model = r.m,
                         !.calls = Append(@, [op |-> "predict", ok |-> r.ok,
                                              series |-> series, n |-> n,
                                              future_covariates |-> future_covariates,
                                              forecast |-> r.forecast,
                                              before |-> life.model,
                                              after |-> r.m])]
    /\ UNCHANGED <<hfvars, gs, meta, scorer, agg>>

InitCovariates ==
    Init /\ kind \in {"FutureCovLocal", "TransferableFutureCovLocal"} /\ incl

NextCovariates ==
    \/ LifecycleConstruct
    \/ FutureCovariatesFit
    \/ FutureCovariatesPredict

SpecCovariates == InitCovariates /\ [][NextCovariates]_vars

\* ------------------------------------------ model creation, one at a time
\* The parameters of __init__ of the model class, in the order of its
\* signature: a has no default, b has the default 0.
ParamNames == <<"a", "b">>

\* inspect.Parameter.empty
Empty == -1

Defaults == [n \in {"a", "b"} |-> IF n = "a" THEN Empty ELSE 0]

\* the positional arguments of a call of the class
PositionalArgs == UNION {[1..k -> 1..MaxParams] : k \in 0..Len(ParamNames)}

\* the keyword arguments of a call of the class
KeywordArgs == UNION {[ns -> 1..MaxParams] : ns \in SUBSET {"a", "b"}}

\* dict.update
update(f, g) ==
    [n \in (DOMAIN f) \cup (DOMAIN g) |-> IF n \in DOMAIN g THEN g[n] ELSE f[n]]

\* step 2 of ModelMeta.__call__: the positional arguments, by zip
fill_positional(all, posargs) ==
    [n \in DOMAIN all |->
        IF \E i \in 1..Len(posargs) : i <= Len(ParamNames) /\ ParamNames[i] = n
        THEN posargs[CHOOSE i \in 1..Len(posargs) : ParamNames[i] = n]
        ELSE all[n]]

\* step 3: the parameters that are still empty are removed
remove_empty(all) == [n \in {x \in DOMAIN all : all[x] # Empty} |-> all[n]]

\* all_params with the positional arguments laid over the keyword arguments
all_params_positional_last(posargs, kwargs) ==
    remove_empty(fill_positional(update(Defaults, kwargs), posargs))

\* all_params of ModelMeta.__call__, steps 1 to 4
all_params_of(posargs, kwargs) ==
    update(remove_empty(fill_positional(Defaults, posargs)), kwargs)

\* __init__(**all_params) has a value for every parameter without default
binds(all) == \A n \in DOMAIN Defaults : Defaults[n] = Empty => n \in DOMAIN all

\* an instance as ForecastingModel.__init__ leaves it
new_instance(model_params) ==
    [model_params |-> model_params, fit_called |-> FALSE]

\* M(*posargs, **kwargs), alone: ModelMeta.__call__, then __init__ with
\* _extract_model_creation_params.  When __init__ cannot bind its
\* parameters the class attribute is left behind.
SequentialConstruct ==
    /\ meta.pc = "idle"
    /\ \E posargs \in PositionalArgs, kwargs \in KeywordArgs :
          LET all == all_params_of(posargs, kwargs)
          IN  meta' = IF binds(all)
                      THEN [meta EXCEPT !.pc = "constructed",
                                        !.args = posargs, !.kwargs = kwargs,
                                        !.model_call = <<>>,
                                        !.instance = new_instance(all)]
                      ELSE [meta EXCEPT !.pc = "failed", !.err = "TypeError",
                                        !.args = posargs, !.kwargs = kwargs,
                                        !.model_call = <<all>>]
    /\ UNCHANGED <<hfvars, gs, life, scorer, agg>>

\* a fit of the instance that succeeds
SequentialFit ==
    /\ meta.pc = "constructed"
    /\ ~meta.instance.fit_called
    /\ meta' = [meta EXCEPT !.instance.fit_called = TRUE]
    /\ UNCHANGED <<hfvars, gs, life, scorer, agg>>

\* model.untrained_model(): self.__class__(**self.model_params)
UntrainedModel ==
    /\ meta.pc = "constructed"
    /\ meta.clone = <<>>
    /\ LET all == all_params_of(<<>>, meta.instance.model_params)
       IN  meta' = IF binds(all)
                   THEN [meta EXCEPT !.clone = <<new_instance(all)>>,
                                     !.model_call = <<>>]
                   ELSE [meta EXCEPT !.pc = "failed", !.err = "TypeError",
                                     !.model_call = <<all>>]
    /\ UNCHANGED <<hfvars, gs, life, scorer, agg>>

InitModelParams == Init /\ kind = "Local" /\ incl

NextModelParams ==
    \/ SequentialConstruct
    \/ SequentialFit
    \/ UntrainedModel

SpecModelParams == InitModelParams /\ [][NextModelParams]_vars

\* ------------------------------------------------------------- properties
Called == pc # "idle"

\* the call passed the configuration checks and built its forecast origins
Scheduled == Called /\ err \notin ConfigErrors

Iterations == 1..Len(log)

Horizon == args.forecast_horizon * Freq

LastValidPredTime ==
    get_last_prediction_time(args.series, args.forecast_horizon, args.overlap_end)

NotLaterThan(s, t) == s = NoneTS \/ end_time(s) <= t

\* C1 as stated: in every iteration with forecast origin t, the target
\* series handed to fit and predict holds no timestamp later than t, the past
\* covariates handed to them none later than t, and the future covariates
\* none later than t + forecast_horizon steps.
C1_Original ==
    \A i \in Iterations :
        LET e == log[i]
        IN  /\ e.refit =>
                /\ NotLaterThan(e.fit_args.series, e.pred_time)
                /\ NotLaterThan(e.fit_args.past_covariates, e.pred_time)
                /\ NotLaterThan(e.fit_args.future_covariates, e.pred_time + Horizon)
            /\ e.predicted =>
                /\ NotLaterThan(e.predict_args.series, e.pred_time)
                /\ NotLaterThan(e.predict_args.past_covariates, e.pred_time)
                /\ NotLaterThan(e.predict_args.future_covariates,
                                e.pred_time + Horizon)

\* C1 amended: in every iteration with forecast origin t, the target series
\* handed to fit and predict is that iteration's training window and holds no
\* timestamp later than t; the covariates handed to fit and predict are the
\* caller's series as supplied, not cut at t or at t + forecast_horizon.
C1_TargetWindowCausality ==
    \A i \in Iterations :
        LET e == log[i]
        IN  /\ NotLaterThan(e.train, e.pred_time)
            /\ e.refit =>
                /\ e.fit_args.series = e.train
                /\ e.fit_args.past_covariates \in {NoneTS, args.past_covariates}
                /\ e.fit_args.future_covariates \in {NoneTS, args.future_covariates}
            /\ e.predicted =>
                /\ e.predict_args.series \in {NoneTS, e.train}
                /\ e.predict_args.past_covariates \in {NoneTS, args.past_covariates}
                /\ e.predict_args.future_covariates
                      \in {NoneTS, args.future_covariates}

\* An iteration that fit and predicted with past covariates reaching beyond
\* its forecast origin.
C1_Witness ==
    \E i \in Iterations :
        /\ log[i].fit_ok /\ log[i].predict_ok
        /\ log[i].fit_args.past_covariates # NoneTS
        /\ end_time(log[i].fit_args.past_covariates) > log[i].pred_time
        /\ end_time(log[i].train) < end_time(args.series)

\* C2 as stated: with overlap_end false every forecast origin satisfies
\* origin + forecast_horizon * step <= the last timestamp of the series.
C2_Original ==
    (Scheduled /\ ~args.overlap_end) =>
        \A i \in 1..Len(pred_times) :
            pred_times[i] + Horizon <= end_time(args.series)

\* C2 amended: with overlap_end false every forecast origin satisfies
\* origin + (forecast_horizon - 1) * step <= the last timestamp of the
\* series: the last admissible origin is time_index[-forecast_horizon],
\* forecast_horizon - 1 steps before the end.
C2_OriginsLeaveRoomForHorizon ==
    (Scheduled /\ ~args.overlap_end) =>
        \A i \in 1..Len(pred_times) :
            pred_times[i] + (args.forecast_horizon - 1) * Freq
                <= end_time(args.series)

\* A schedule without overlap, of horizon 2 or more, whose last origin is
\* exactly forecast_horizon - 1 steps before the end of the series.
C2_Witness ==
    /\ Scheduled /\ ~args.overlap_end /\ args.forecast_horizon >= 2
    /\ Len(pred_times) >= 2
    /\ pred_times[Len(pred_times)] + (args.forecast_horizon - 1) * Freq
          = end_time(args.series)

\* C3: the forecast origins are a finite, strictly increasing list that
\* starts at the resolved start, advances by exactly stride steps, does not
\* exceed the last admissible origin (the series' last timestamp when
\* overlap_end is true), and goes on up to the largest such point.
C3_PredTimesSchedule ==
    Scheduled =>
        /\ Len(pred_times) >= 1
        /\ pred_times[1] = get_timestamp_at_point(args.series, args.start)
        /\ \A i \in 1..(Len(pred_times) - 1) :
              pred_times[i + 1] = pred_times[i] + args.stride * Freq
        /\ \A i \in 1..Len(pred_times) : pred_times[i] <= LastValidPredTime
        /\ pred_times[Len(pred_times)] + args.stride * Freq > LastValidPredTime
        /\ args.overlap_end => LastValidPredTime = end_time(args.series)

\* A schedule of several origins whose loop overshot the last admissible
\* origin, so that the last computed element was dropped.
C3_Witness ==
    /\ Scheduled /\ Len(pred_times) >= 2 /\ args.stride >= 2
    /\ pred_times[Len(pred_times)] < LastValidPredTime

\* C4: with retrain a positive integer k on a model that supports skipping
\* retraining, the model is refit exactly in the iterations 0, k, 2k, ...,
\* iteration 0 included whether or not the model was fitted before.
C4_RetrainEveryK ==
    (/\ Scheduled
     /\ kind \in {"Global", "TransferableFutureCovLocal"}
     /\ args.retrain.type = "int" /\ args.retrain.val >= 1) =>
        \A i \in Iterations :
            /\ log[i].counter = i - 1
            /\ log[i].refit <=> ((i - 1) % args.retrain.val = 0)

\* A run with k = 2 on a model fitted beforehand: refit in iterations 0 and
\* 2, not in iteration 1.
C4_Witness ==
    /\ args.retrain = RetrainInt(2) /\ pre.fit_called /\ Len(log) >= 3
    /\ log[1].fit_ok /\ ~log[2].refit /\ log[3].fit_ok

\* C5: whatever the retrain policy, an iteration that starts with a model
\* never fit fits it, and predict is never invoked on a model never fit.
C5_ForcedFirstFit ==
    \A i \in Iterations :
        /\ ~log[i].fitted_before => log[i].refit
        /\ log[i].predicted => log[i].fitted_at_predict

\* A run with retrain = False on a model never fit: the first iteration fit
\* the model and predicted.
C5_Witness ==
    /\ args.retrain = RetrainBool(FALSE) /\ Len(log) >= 1
    /\ ~log[1].fitted_before /\ log[1].fit_ok /\ log[1].predict_ok

\* C6: with retrain = True the model is fit in every iteration on that
\* iteration's training window; with retrain = False it is fit only when it
\* was never fit, then in iteration 0 alone, and never when it was fitted
\* before the call.
C6_BooleanPolicy ==
    Scheduled =>
        /\ args.retrain = RetrainBool(TRUE) =>
              \A i \in Iterations :
                  log[i].refit /\ log[i].fit_args.series = log[i].train
        /\ args.retrain = RetrainBool(FALSE) =>
              \A i \in Iterations :
                  /\ log[i].refit <=> (~pre.fit_called /\ i = 1)
                  /\ log[i].refit => log[i].fit_args.series = log[1].train

\* A run with retrain = False on a model never fit: fit in iteration 0, not
\* in iteration 1.
C6_Witness ==
    /\ args.retrain = RetrainBool(FALSE) /\ ~pre.fit_called /\ Len(log) >= 2
    /\ log[1].fit_ok /\ ~log[2].refit /\ log[2].predict_ok

\* the retrain policies: a bool, a non-negative int, a callable
ValidPolicy(retrain) ==
    \/ retrain.type \in {"bool", "callable"}
    \/ retrain.type = "int" /\ retrain.val >= 0

FailedInConfiguration ==
    /\ pc = "error" /\ err \in ConfigErrors
    /\ log = <<>> /\ forecasts = <<>> /\ result = NoResult
    /\ model = pre

\* the classes that keep the default of ForecastingModel, and the two that
\* override it
WithoutSupport == {"Local", "FutureCovLocal"}

WithSupport == {"Global", "TransferableFutureCovLocal"}

\* C7 as stated: on a model class that does not support skipping retraining,
\* every retrain value other than True (False, an integer k, a callable)
\* raises a configuration error before the first iteration.
C7_Original ==
    (/\ Called
     /\ kind \in WithoutSupport
     /\ args.retrain # RetrainBool(TRUE)) => FailedInConfiguration

\* C7 amended: on a model class that does not support skipping retraining,
\* every retrain value other than True and the integer 1 (False, 0, an
\* integer k other than 1, a callable) raises a configuration error before
\* the first iteration; the classes declaring the support are not refused
\* any bool, non-negative integer or callable.
C7_NonRetrainableRejected ==
    /\ (/\ Called
        /\ kind \in WithoutSupport
        /\ args.retrain \notin {RetrainBool(TRUE), RetrainInt(1)})
           => FailedInConfiguration
    /\ (/\ Called
        /\ kind \in WithSupport
        /\ ValidPolicy(args.retrain))
           => err \notin {"NonRetrainableModel", "RetrainType", "RetrainNotANumber"}

\* retrain = False refused on a class without the support, on a model that
\* was fitted before the call.
C7_Witness ==
    /\ kind = "Local" /\ args.retrain = RetrainBool(FALSE)
    /\ pre.fit_called /\ err = "NonRetrainableModel" /\ pc = "error"

\* C8: a retrain of an unsupported type, a non-retrainable model asked to
\* skip retraining, and a train_length that is no integer, below 1 or below
\* min_train_series_length each end the call with a configuration error
\* before any iteration: nothing is fit or predicted and the model's fit
\* flag and training series are what they were before the call.
C8_ConfigurationErrorsFirst ==
    /\ (/\ Called
        /\ \/ ~ValidPolicy(args.retrain)
           \/ /\ kind \in WithoutSupport
              /\ args.retrain \notin {RetrainBool(TRUE), RetrainInt(1)}
           \/ args.train_length.type = "float"
           \/ /\ args.train_length.type = "int"
              /\ args.train_length.val < min_train_series_length)
           => /\ FailedInConfiguration
              /\ model.fit_called = pre.fit_called
              /\ model.training_series = pre.training_series
    /\ err \in ConfigErrors => FailedInConfiguration

\* A call on a fitted model refused for a train_length below the model's
\* minimum.
C8_Witness ==
    /\ pc = "error" /\ err = "TrainLengthTooSmall"
    /\ args.train_length = TrainLengthInt(min_train_series_length - 1)
    /\ pre.fit_called /\ model.fit_called

\* the series up to the forecast origin of iteration i
Prefix(i) == drop_after(args.series, log[i].pred_time, incl)

\* C9: the training series of an iteration is the prefix of the series up
\* to the forecast origin when train_length is unset, and the trailing
\* train_length points of that prefix otherwise: it ends where the prefix
\* ends and its length is min(train_length, length of the prefix).
C9_TrainingWindowShape ==
    \A i \in Iterations :
        LET e == log[i]
            prefix == Prefix(i)
        IN  /\ start_time(prefix) = start_time(args.series)
            /\ end_time(e.train) = end_time(prefix)
            /\ args.train_length.type = "none" => e.train = prefix
            /\ args.train_length.type = "int" =>
                  len(e.train) = Min(args.train_length.val, len(prefix))
            /\ e.refit => e.fit_args.series = e.train

\* A run with train_length = 3 that met a prefix shorter than 3 points and a
\* prefix longer than 3 points.
C9_Witness ==
    /\ args.train_length = TrainLengthInt(3)
    /\ \E i, j \in Iterations :
          /\ len(Prefix(i)) < 3 /\ log[i].train = Prefix(i)
          /\ len(Prefix(j)) > 3 /\ len(log[j].train) = 3 /\ log[j].predict_ok

LastAdmissibleOrigin ==
    IF args.overlap_end
    THEN end_time(args.series)
    ELSE end_time(args.series) - (args.forecast_horizon - 1) * Freq

StartTooLate ==
    start_time(args.series) + get_index_at_point(args.series, args.start) * Freq
        > LastAdmissibleOrigin

C12_SequentialIterations ==
    /\ Len(log) <= Len(pred_times)
    /\ \A i \in Iterations :
          /\ log[i].counter = i - 1
          /\ log[i].pred_time = pred_times[i]
          /\ log[i].train = build_train(args.series, pred_times[i],
                                        args.train_length, incl)
          /\ log[i].predicted <=> (log[i].refit => log[i].fit_ok)
          /\ log[i].predict_ok => log[i].predicted
          /\ i < Len(log) =>
                /\ log[i].predict_ok
                /\ log[i].pred_time < log[i + 1].pred_time
                /\ log[i + 1].fitted_before = log[i].fitted_at_predict
    /\ \A i \in 1..Len(forecasts) :
          /\ i <= Len(log) /\ log[i].predict_ok
          /\ forecasts[i].first > log[i].pred_time - Freq
    /\ counter = Len(forecasts)
    /\ Len(log) \in {Len(forecasts), Len(forecasts) + 1}
    /\ Len(log) = Len(forecasts) + 1 => (pc = "error" /\ ~log[Len(log)].predict_ok)

\* A completed run of three iterations or more that refit in some of them
\* and not in others.
C12_Witness ==
    /\ pc = "done" /\ Len(log) >= 3 /\ Len(forecasts) = Len(log)
    /\ log[1].fit_ok /\ ~log[2].refit /\ log[3].fit_ok /\ log[3].predict_ok

\* C13: a call that returns with last_points_only = true returns a series
\* with exactly one point per scheduled forecast origin, whose step is the
\* step of the base series multiplied by stride, on a datetime index and on
\* an integer index alike; once every iteration has predicted, the assembly
\* does not fail.
C13_AssembledSeries ==
    /\ (pc = "done" /\ result.last_points_only) =>
          /\ Len(result.times) = Len(pred_times)
          /\ Len(result.values) = Len(pred_times)
          /\ result.step = Freq * args.stride
          /\ \A i \in 1..(Len(result.times) - 1) :
                result.times[i + 1] - result.times[i] = Freq * args.stride
    /\ err \notin {"ValueError", "IndexError"}

\* A series of last points assembled from two origins that lie two steps of
\* the base series apart.
C13_Witness ==
    /\ pc = "done" /\ result.last_points_only
    /\ args.stride = 2 /\ Len(pred_times) = 2
    /\ result.times[2] = result.times[1] + 2 * Freq

\* the forecast that iteration i made: forecast_horizon points after the end
\* of its training series
StemsFromIteration(f, i) ==
    /\ i \in Iterations /\ log[i].predict_ok
    /\ f.first = end_time(log[i].train) + Freq
    /\ (f.last - f.first) \div Freq + 1 = args.forecast_horizon

\* C14: the i-th element of the result stems from the i-th forecast origin:
\* with last_points_only = true it is the last value of iteration i's
\* forecast at the end time of that forecast; with last_points_only = false
\* the result is the list of the forecasts, one per origin in the order of
\* the iterations, each forecast_horizon points long.
C14_ResultOrderAndContent ==
    pc = "done" =>
        /\ Len(forecasts) = Len(pred_times)
        /\ \A i \in 1..Len(forecasts) :
              /\ log[i].pred_time = pred_times[i]
              /\ StemsFromIteration(forecasts[i], i)
        /\ result.last_points_only =>
              /\ Len(result.values) = Len(forecasts)
              /\ \A i \in 1..Len(result.values) :
                    /\ result.values[i].of = forecasts[i]
                    /\ result.values[i].at = forecasts[i].last
                    /\ result.times[i] = forecasts[i].last
        /\ ~result.last_points_only =>
              /\ result.items = forecasts
              /\ Len(result.items) = Len(pred_times)

\* A series of last points returned for forecasts of two points each from
\* two origins or more.
C14_Witness ==
    /\ pc = "done" /\ result.last_points_only
    /\ args.forecast_horizon = 2 /\ Len(result.values) >= 2
    /\ result.values[2].at = forecasts[2].first + Freq
    /\ result.values[1].at < result.values[2].at

\* the call that just returned repeats an earlier call on a fitted model
\* with retrain = False and asks for the same kind of result
RepeatedWithoutRetraining ==
    /\ pc = "done" /\ previous.called
    /\ args.retrain = RetrainBool(FALSE)
    /\ previous.fitted_before
    /\ result.last_points_only = previous.result.last_points_only

\* C15: when historical_forecasts with retrain = False is run twice with the
\* same inputs on a model fitted beforehand, the second run returns what the
\* first returned, neither run fits the model, and the model's attributes
\* after each run are those before it.
C15_IdempotentWithoutRetraining ==
    RepeatedWithoutRetraining =>
        /\ result = previous.result
        /\ previous.refits = 0
        /\ \A i \in Iterations : ~log[i].refit
        /\ previous.model_after = previous.model_before
        /\ pre = previous.model_after
        /\ model = pre
        /\ model.fit_called

\* Two runs of two iterations or more with retrain = False on a fitted
\* model, both returning the series of last points.
C15_Witness ==
    /\ RepeatedWithoutRetraining
    /\ result.last_points_only /\ Len(result.values) >= 2
    /\ Len(log) >= 2

\* the call of the concrete scenario: 100 points, start = 0.8,
\* forecast_horizon = 1, stride = 1, overlap_end = false, retrain = true
ConcreteScenario ==
    /\ Scheduled
    /\ args.series = ScenarioSeries /\ args.start = StartFloat(8, 10)
    /\ args.forecast_horizon = 1 /\ args.stride = 1 /\ ~args.overlap_end
    /\ args.retrain = RetrainBool(TRUE)

\* the number of elements of the returned series or list
ResultLength ==
    IF result.last_points_only THEN Len(result.times) ELSE Len(result.items)

\* C16 as stated: in the concrete scenario exactly 20 forecast origins are
\* scheduled, the indices 80..99, and the result has length 20.
C16_Original ==
    ConcreteScenario =>
        /\ Len(pred_times) = 20
        /\ \A i \in 1..Len(pred_times) :
              pred_times[i] = time_index(args.series, 79 + i)
        /\ pc = "done" => ResultLength = 20

\* C16 amended: in the concrete scenario exactly 21 forecast origins are
\* scheduled, the indices 79..99 (start = 0.8 resolves to index
\* int(99 * 0.8) = 79), and the result has length 21.
C16_ConcreteScenario ==
    ConcreteScenario =>
        /\ Len(pred_times) = 21
        /\ \A i \in 1..Len(pred_times) :
              pred_times[i] = time_index(args.series, 78 + i)
        /\ pc = "done" => ResultLength = 21

\* The concrete scenario returned the list of its forecasts, the first from
\* the origin at index 79 and the last from the origin at index 99.
C16_Witness ==
    /\ ConcreteScenario /\ pc = "done" /\ ~result.last_points_only
    /\ Len(result.items) = 21
    /\ log[1].pred_time = 79 * Freq /\ log[21].pred_time = 99 * Freq

\* C17: with last_points_only = True and retrain = True the returned series
\* has one point for every origin from the resolved start through the last
\* admissible origin, floor((last admissible origin - start) / stride) + 1
\* points, with and without past covariates; for the 100 points of the test
\* with start = 0.8, forecast_horizon = 1, stride = 1 and overlap_end = False
\* these are 21 points.
C17_OnePointPerOrigin ==
    (/\ pc = "done" /\ result.last_points_only
     /\ args.retrain = RetrainBool(TRUE)) =>
        /\ Len(result.values) =
              ((LastAdmissibleOrigin
                  - get_timestamp_at_point(args.series, args.start))
                \div (args.stride * Freq)) + 1
        /\ \A i \in 1..Len(result.values) :
              /\ result.values[i].of = forecasts[i]
              /\ log[i].pred_time =
                    get_timestamp_at_point(args.series, args.start)
                        + (i - 1) * args.stride * Freq
              /\ log[i].pred_time <= LastAdmissibleOrigin
        /\ ConcreteScenario => Len(result.values) = 21

\* The call of the test with past covariates returned a series of 21 points.
C17_Witness ==
    /\ ConcreteScenario /\ pc = "done" /\ result.last_points_only
    /\ kind = "Global" /\ args.past_covariates = ScenarioSeries
    /\ Len(result.values) = 21

\* metric j applied to the series and the forecast of iteration i
ScoreOf(j, i) ==
    [tag |-> "score", metric |-> backtest.metric[j], actual |-> args.series,
     forecast |-> forecasts[i]]

\* the scores of metric j over all iterations, in their order
ColumnOf(j) == [i \in 1..Len(forecasts) |-> ScoreOf(j, i)]

\* the scores of all metrics in iteration i
RowOf(i) ==
    [tag |-> "list", items |-> [j \in 1..Len(backtest.metric) |-> ScoreOf(j, i)]]

BacktestOfForecasts == backtest.called /\ ~result.last_points_only

\* C18: backtest with last_points_only = false and two metrics returns,
\* with a reduction (the mean by default), a vector of two values whose j-th
\* is the reduction over all iterations of metric j applied to the series
\* and the iteration's forecast; with reduction = None it returns the matrix
\* of the scores, one row per iteration in their order and one column per
\* metric.
C18_TwoMetrics ==
    (BacktestOfForecasts /\ Len(backtest.metric) = 2) =>
        /\ Len(forecasts) = Len(pred_times)
        /\ backtest.returned.tag = "list"
        /\ backtest.reduction # "None" =>
              /\ Len(backtest.returned.items) = 2
              /\ \A j \in 1..2 :
                    backtest.returned.items[j] =
                        [tag |-> "reduced", by |-> backtest.reduction,
                         over |-> ColumnOf(j)]
        /\ backtest.reduction = "None" =>
              /\ Len(backtest.returned.items) = Len(forecasts)
              /\ \A i \in 1..Len(forecasts) :
                    backtest.returned.items[i] = RowOf(i)

\* Two metrics reduced by the mean over the forecasts of three origins.
C18_Witness ==
    /\ BacktestOfForecasts /\ backtest.metric = <<"mape", "mae">>
    /\ backtest.reduction = "mean" /\ Len(forecasts) = 3
    /\ Len(backtest.returned.items) = 2
    /\ Len(backtest.returned.items[2].over) = 3

\* C19: backtest with exactly one metric and last_points_only = false
\* returns, with a reduction, the single number that is the reduction of the
\* metric's scores over the iterations; with reduction = None it returns the
\* scores of all iterations, one entry per forecast origin.
C19_Original ==
    (BacktestOfForecasts /\ Len(backtest.metric) = 1) =>
        /\ backtest.reduction # "None" =>
              backtest.returned =
                  [tag |-> "reduced", by |-> backtest.reduction,
                   over |-> ColumnOf(1)]
        /\ backtest.reduction = "None" =>
              /\ backtest.returned.tag = "list"
              /\ Len(backtest.returned.items) = Len(pred_times)
              /\ \A i \in 1..Len(backtest.returned.items) :
                    backtest.returned.items[i] \in {ScoreOf(1, i), RowOf(i)}

\* C20: backtest with last_points_only = true applies each metric exactly
\* once, to the series and the one assembled series, applies no reduction
\* whatever reduction is given, and returns one score per metric, the bare
\* score when there is one metric.
C20_LastPointsOnly ==
    (backtest.called /\ result.last_points_only) =>
        LET assembled == [times |-> result.times, values |-> result.values,
                          step |-> result.step]
            once == [j \in 1..Len(backtest.metric) |->
                        [tag |-> "score", metric |-> backtest.metric[j],
                         actual |-> args.series, forecast |-> assembled]]
        IN  /\ backtest.raw = [tag |-> "list", items |-> once]
            /\ Len(backtest.raw.items) = Len(backtest.metric)
            /\ IF Len(backtest.metric) > 1
               THEN backtest.returned = [tag |-> "list", items |-> once]
               ELSE backtest.returned = once[1]

\* One metric, not in a list, with the mean as reduction, on the series
\* assembled from two origins or more: the bare score came back.
C20_Witness ==
    /\ backtest.called /\ result.last_points_only
    /\ ~backtest.is_list /\ backtest.reduction = "mean"
    /\ Len(result.times) >= 2
    /\ backtest.returned.tag = "score"

\* ---- gridsearch
GsCalled == gs.pc # "idle"

ExactlyOneMode ==
    \/ gs.forecast_horizon_given /\ ~gs.val_series_given /\ ~gs.use_fitted_values
    \/ ~gs.forecast_horizon_given /\ gs.val_series_given /\ ~gs.use_fitted_values
    \/ ~gs.forecast_horizon_given /\ ~gs.val_series_given /\ gs.use_fitted_values

NothingEvaluated ==
    gs.instantiated = <<>> /\ gs.errors = <<>> /\ gs.returned = <<>>

\* the number of combinations of the grid
GridTotal == Len(gs.parameters[1]) * Len(gs.parameters[2])

\* c is a combination of the grid
InGrid(c) ==
    /\ Len(c) = 2
    /\ \E i \in 1..Len(gs.parameters[1]) : c[1] = gs.parameters[1][i]
    /\ \E i \in 1..Len(gs.parameters[2]) : c[2] = gs.parameters[2][i]

\* the call passed the checks of the mode
ModeAccepted ==
    GsCalled /\ gs.err \notin {"ModeError", "NoFittedValues", "WidthError"}

\* C21: gridsearch goes on only when exactly one of forecast_horizon,
\* val_series and use_fitted_values is selected; with none or several it
\* ends with a configuration error before any combination is instantiated,
\* fitted or evaluated.
C21_ExactlyOneMode ==
    GsCalled =>
        /\ ~ExactlyOneMode =>
              /\ gs.pc = "error" /\ gs.err = "ModeError"
              /\ NothingEvaluated /\ gs.params_cross_product = <<>>
        /\ gs.pc \in {"evaluating", "done"} => ExactlyOneMode
        /\ gs.err = "ModeError" => ~ExactlyOneMode

\* A call with forecast_horizon and val_series both given, refused.
C21_Witness ==
    /\ gs.pc = "error" /\ gs.err = "ModeError"
    /\ gs.forecast_horizon_given /\ gs.val_series_given
    /\ ~gs.use_fitted_values

\* C22: gridsearch evaluates every retained combination exactly once, each
\* on a new model built from it, and returns the combination whose error is
\* the minimum, the first of them in the order of the combinations when
\* several reach it, with that error as the score and a new model built from
\* that combination that was never fit.
C22_MinimumFirstFound ==
    /\ (GsCalled /\ gs.pc # "error") =>
          /\ Len(gs.instantiated) = Len(gs.errors)
          /\ Len(gs.errors) <= Len(gs.params_cross_product)
          /\ \A i \in 1..Len(gs.instantiated) :
                gs.instantiated[i].model_params = gs.params_cross_product[i]
    /\ gs.pc = "done" =>
          /\ Len(gs.errors) = Len(gs.params_cross_product)
          /\ Len(gs.errors) >= 1
          /\ \A i \in 1..Len(gs.errors) : gs.returned[3] <= gs.errors[i]
          /\ \E i \in 1..Len(gs.errors) :
                /\ gs.errors[i] = gs.returned[3]
                /\ gs.params_cross_product[i] = gs.returned[2]
                /\ \A j \in 1..(i - 1) : gs.errors[j] > gs.returned[3]
          /\ gs.returned[1] =
                [model_params |-> gs.returned[2], fit_called |-> FALSE]

\* A search in which the second and the third combination share the minimum
\* and the second was returned.
C22_Witness ==
    /\ gs.pc = "done" /\ Len(gs.errors) >= 3
    /\ gs.errors[1] = 2 /\ gs.errors[2] = 1 /\ gs.errors[3] = 1
    /\ gs.returned[2] = gs.params_cross_product[2]

\* C23: with n_random_samples an integer n, 0 < n <= total, gridsearch
\* evaluates exactly n combinations of the grid taken at pairwise distinct
\* places and returns the best of them; with an integer outside (0, total]
\* it ends with an error before any combination is evaluated.
C23_IntegerSampling ==
    (ModeAccepted /\ gs.n_random_samples.type = "int") =>
        LET n == gs.n_random_samples.num
        IN  IF n > 0 /\ n <= GridTotal
            THEN /\ gs.pc \in {"evaluating", "done"}
                 /\ Len(gs.params_cross_product) = n
                 /\ \A i \in 1..n : InGrid(gs.params_cross_product[i])
                 /\ \A i, j \in 1..n :
                       i # j => gs.params_cross_product[i]
                                   # gs.params_cross_product[j]
                 /\ gs.pc = "done" =>
                       /\ Len(gs.instantiated) = n
                       /\ \E i \in 1..n :
                             gs.returned[2] = gs.params_cross_product[i]
            ELSE /\ gs.pc = "error" /\ gs.err = "SampleError"
                 /\ NothingEvaluated

\* Two of the six combinations of the 2 x 3 grid evaluated, one of them
\* returned.
C23_Witness ==
    /\ gs.pc = "done" /\ gs.n_random_samples = GsInt(2) /\ GridTotal = 6
    /\ Len(gs.instantiated) = 2
    /\ gs.instantiated[1].model_params # gs.instantiated[2].model_params

\* C24 as stated: with n_random_samples a fraction f in (0, 1] gridsearch
\* evaluates exactly round(f * total) combinations of the grid; a fraction
\* outside (0, 1] ends with an error before any combination is evaluated.
C24_Original ==
    (ModeAccepted /\ gs.n_random_samples.type = "float") =>
        LET f == gs.n_random_samples
        IN  IF f.num > 0 /\ f.num <= f.den
            THEN /\ Len(gs.params_cross_product)
                       = sample_size_rounded(f.num, f.den, GridTotal)
                 /\ gs.pc = "done" =>
                       Len(gs.instantiated)
                           = sample_size_rounded(f.num, f.den, GridTotal)
            ELSE /\ gs.pc = "error" /\ gs.err = "SampleError"
                 /\ NothingEvaluated

\* C24 amended: with n_random_samples a fraction f in (0, 1] gridsearch
\* evaluates exactly int(f * total) combinations of the grid, the product
\* truncated, taken at pairwise distinct places; when that number is 0
\* nothing is evaluated and the call fails on the minimum of no errors; a
\* fraction outside (0, 1] ends with an error before any combination is
\* evaluated.
C24_FractionalSampling ==
    (ModeAccepted /\ gs.n_random_samples.type = "float") =>
        LET f == gs.n_random_samples
            n == (f.num * GridTotal) \div f.den
        IN  IF f.num > 0 /\ f.num <= f.den
            THEN /\ Len(gs.params_cross_product) = n
                 /\ \A i \in 1..n : InGrid(gs.params_cross_product[i])
                 /\ \A i, j \in 1..n :
                       i # j => gs.params_cross_product[i]
                                   # gs.params_cross_product[j]
                 /\ gs.pc = "done" => Len(gs.instantiated) = n /\ n >= 1
                 /\ gs.pc = "error" =>
                       n = 0 /\ gs.err = "ValueError" /\ NothingEvaluated
            ELSE /\ gs.pc = "error" /\ gs.err = "SampleError"
                 /\ NothingEvaluated

\* The ratio 0.3 on the grid of six combinations: one combination evaluated,
\* where round(1.8) is two.
C24_Witness ==
    /\ gs.pc = "done" /\ gs.n_random_samples = GsFloat(3, 10) /\ GridTotal = 6
    /\ Len(gs.instantiated) = 1

\* ---- model creation
\* C25 as stated: when two models of one class are constructed side by side,
\* each instance's recorded creation parameters are the arguments it was
\* constructed with, and neither construction fails because of the other.
C25_Original ==
    \A t \in Constructions :
        /\ meta.threads[t].pc # "failed"
        /\ meta.threads[t].pc \in {"copied", "constructed"} =>
              meta.threads[t].model_params = <<meta.threads[t].all_params>>

\* ---- fit / predict lifecycle
\* call i of the model is a fit that succeeded
SuccessfulFit(i) == life.calls[i].op = "fit" /\ life.calls[i].ok

\* C26: a newly constructed model is unfitted; a successful fit marks it
\* fitted and records the training series; in every sequence of fit and
\* predict calls a predict issued while no fit has succeeded raises and
\* produces no forecast, and a predict with num_samples > 1 on a model that
\* is not probabilistic raises.
C26_FitBeforePredict ==
    life.pc = "constructed" =>
        /\ life.calls = <<>> =>
              ~life.model.fit_called /\ life.model.training_series = NoneTS
        /\ \A i \in 1..Len(life.calls) :
              LET c == life.calls[i]
              IN  /\ SuccessfulFit(i) =>
                        /\ c.after.fit_called
                        /\ c.after.training_series = c.series
                  /\ (c.op = "predict"
                        /\ \A j \in 1..(i - 1) : ~SuccessfulFit(j)) =>
                        ~c.ok /\ c.forecast = NoForecast
                  /\ (c.op = "predict" /\ c.num_samples > 1
                        /\ ~life.is_probabilistic) =>
                        ~c.ok /\ c.forecast = NoForecast
        /\ (Len(life.calls) > 0) =>
              life.model = life.calls[Len(life.calls)].after

\* A fit that failed on a short series, then a predict that raised, then a
\* fit that succeeded.
C26_Witness ==
    /\ life.pc = "constructed" /\ Len(life.calls) = 3
    /\ life.calls[1].op = "fit" /\ ~life.calls[1].ok
    /\ life.calls[2].op = "predict" /\ ~life.calls[2].ok
    /\ life.calls[2].err = "NotFitted"
    /\ SuccessfulFit(3) /\ life.model.fit_called

\* ---- anomaly scorers
\* the series the core routine of the last call was given
CoreSeries == scorer.last.fit_core \o scorer.last.score_core

\* the last call was given a series of several samples
StochasticInput ==
    \E i \in 1..Len(scorer.last.inputs) : Len(scorer.last.inputs[i].samples) > 1

\* the input of the last call with each series replaced by its median
MedianInput(i) ==
    [scorer.last.inputs[i] EXCEPT
        !.samples = <<median(scorer.last.inputs[i].samples)>>]

\* C27 as stated: whenever a stochastic series is given to fit, score,
\* fit_from_prediction or score_from_prediction of a fittable scorer, the
\* call does not fail for that reason, a warning is issued, and the series
\* the core fitting or scoring routine is given is the median reduction of
\* the input, never the stochastic series itself.
C27_Original ==
    (scorer.last.op # "none" /\ StochasticInput) =>
        /\ ~scorer.last.ok => scorer.last.err \in {"NotFitted", "WindowError"}
        /\ scorer.last.ok =>
              /\ scorer.last.warnings # <<>>
              /\ Len(CoreSeries) = 1
              /\ Len(CoreSeries[1].samples) = 1
              /\ scorer.last.op \in {"fit", "score"} =>
                    CoreSeries[1] = MedianInput(1)

\* ---- aggregators
\* C28: for any sequence of multivariate binary series the AndAggregator
\* predicts, for each series, a univariate series of the same length whose
\* value at a time point is 1 if and only if every component of the input
\* is 1 at that time point, and 0 otherwise.
C28_AndOfComponents ==
    agg.pc = "done" =>
        /\ Len(agg.prediction) = Len(agg.series)
        /\ \A k \in 1..Len(agg.series) :
              /\ Len(agg.prediction[k]) = Len(agg.series[k])
              /\ \A t \in 1..Len(agg.series[k]) :
                    /\ Len(agg.prediction[k][t]) = 1
                    /\ agg.prediction[k][t][1] \in {0, 1}
                    /\ agg.prediction[k][t][1] = 1 <=>
                          \A c \in 1..Len(agg.series[k][t]) :
                              agg.series[k][t][c] = 1

\* Two series of two components: the first is 1 in all components at its
\* first time point only and is predicted 1 there and 0 after, the second
\* is 1 in one component only and is predicted 0.
C28_Witness ==
    /\ agg.pc = "done" /\ Len(agg.series) = 2
    /\ agg.series[1] = <<<<1, 1>>, <<1, 0>>>>
    /\ agg.prediction[1] = <<<<1>>, <<0>>>>
    /\ agg.series[2] = <<<<0, 1>>>>
    /\ agg.prediction[2] = <<<<0>>>>

\* ---- the retrain argument
\* C30 as stated: historical_forecasts accepts retrain only as a bool, a
\* positive integer or a callable; an integer that is 0 or negative is
\* refused with a configuration error before any iteration, on every class
\* of model.
C30_Original ==
    Called =>
        /\ (args.retrain.type = "int" /\ args.retrain.val <= 0) =>
              FailedInConfiguration
        /\ args.retrain.type = "other" => FailedInConfiguration
        /\ ~FailedInConfiguration =>
              \/ args.retrain.type \in {"bool", "callable"}
              \/ args.retrain.type = "int" /\ args.retrain.val > 0

\* ---- retrain as a callable
\* the covariates cut at the time t: from their start to t, or to the time
\* step before t where drop_after leaves t out
TruncatedAt(covariates, t) ==
    <<covariates[1],
      Min(IF incl THEN t ELSE t - Freq, covariates[2])>>

\* what the callable is handed for the covariates of the given name
Handed(name, covariates, t) ==
    IF covariates # NoneTS /\ name \in args.retrain.sig
    THEN TruncatedAt(covariates, t)
    ELSE NoneTS

\* C29: with retrain a callable, in each iteration where the model is
\* already fit the model is refit if and only if the callable answers true,
\* the callable being given the forecast time of the iteration, the training
\* series that ends at it, the past covariates cut at the forecast time and
\* the future covariates cut at min(forecast time + forecast_horizon steps,
\* end of the series), each only if the callable's parameters name it; in an
\* iteration where the model was never fit the refit happens whatever the
\* callable would answer.
C29_CallableRetrain ==
    (Scheduled /\ args.retrain.type = "callable") =>
        \A i \in Iterations :
            LET e == log[i]
            IN  /\ e.fitted_before =>
                      /\ e.asked
                      /\ e.refit <=> e.answer
                      /\ e.retrain_func_args.pred_time = pred_times[i]
                      /\ e.pred_time = pred_times[i]
                      /\ e.retrain_func_args.train_series = e.train
                      /\ e.train[2] = (IF incl THEN e.pred_time
                                       ELSE e.pred_time - Freq)
                      /\ e.retrain_func_args.past_covariates
                            = Handed("past_covariates", args.past_covariates,
                                     e.pred_time)
                      /\ e.retrain_func_args.future_covariates
                            = Handed("future_covariates",
                                     args.future_covariates,
                                     IF e.pred_time + Horizon <= args.series[2]
                                     THEN e.pred_time + Horizon
                                     ELSE args.series[2])
                /\ ~e.fitted_before => e.refit /\ ~e.asked

\* A fitted model, future covariates that reach beyond the series and a
\* callable that names them: it answers false at the first forecast time and
\* the model is not refit, true at the second, whose horizon passes the end
\* of the series, and the model is refit.
C29_Witness ==
    /\ Scheduled /\ args.retrain = RetrainCallableOf({"future_covariates"})
    /\ Len(log) >= 2
    /\ args.future_covariates # NoneTS
    /\ log[1].fitted_before /\ ~log[1].answer /\ ~log[1].refit
    /\ log[2].fitted_before /\ log[2].answer /\ log[2].refit /\ log[2].fit_ok
    /\ log[2].pred_time + Horizon > args.series[2]
    /\ log[2].retrain_func_args.future_covariates[2] = args.series[2]
    /\ args.future_covariates[2] > args.series[2]
    /\ args.past_covariates # NoneTS
    /\ log[2].retrain_func_args.past_covariates = NoneTS

\* ---- fit / predict with future covariates
\* C31 as stated: a fit that fails leaves the fit flag, the stored training
\* series and the record of whether covariates are expected at predict time
\* as they were before the call.
C31_Original ==
    \A i \in 1..Len(life.calls) :
        (life.calls[i].op = "fit" /\ ~life.calls[i].ok) =>
            /\ life.calls[i].after.fit_called = life.calls[i].before.fit_called
            /\ life.calls[i].after.training_series
                  = life.calls[i].before.training_series
            /\ life.calls[i].after.expect_covariate
                  = life.calls[i].before.expect_covariate

\* call j is the most recent fit that succeeded before call i
LastSuccessfulFit(j, i) ==
    /\ j < i /\ SuccessfulFit(j)
    /\ \A k \in (j + 1)..(i - 1) : ~SuccessfulFit(k)

\* C32 as stated, for the runs in which no fit failed: a predict without
\* covariates succeeds when the most recent fit had none, even if an earlier
\* fit had some, and a predict with covariates is refused when the most
\* recent fit had none.
C32_Original ==
    (kind = "FutureCovLocal"
        /\ \A k \in 1..Len(life.calls) :
              life.calls[k].op = "fit" => life.calls[k].ok) =>
        \A i \in 1..Len(life.calls) : \A j \in 1..Len(life.calls) :
            (life.calls[i].op = "predict" /\ LastSuccessfulFit(j, i)
                /\ life.calls[j].future_covariates = NoneTS) =>
                /\ life.calls[i].future_covariates = NoneTS => life.calls[i].ok
                /\ life.calls[i].future_covariates # NoneTS => ~life.calls[i].ok

\* C33 as stated, for a model that was fit: once predict(series = s) has
\* finished, with a forecast or with an error, training_series is again the
\* series the model was fitted on.
C33_Original ==
    kind = "TransferableFutureCovLocal" =>
        \A i \in 1..Len(life.calls) :
            (life.calls[i].op = "predict" /\ life.calls[i].series # NoneTS
                /\ life.calls[i].before.fit_called) =>
                life.calls[i].after.training_series
                    = life.calls[i].before.training_series

\* ---- model creation, one at a time
\* the value the call gave to the parameter at place i of the signature:
\* the keyword argument, else the positional one, else the default
Overlaid(i) ==
    IF ParamNames[i] \in DOMAIN meta.kwargs THEN meta.kwargs[ParamNames[i]]
    ELSE IF i <= Len(meta.args) THEN meta.args[i]
    ELSE IF i = 2 THEN 0 ELSE Empty

\* the state of a model constructed alone, and of its copy
CreationParamsKept ==
    meta.pc = "constructed" =>
        /\ meta.model_call = <<>>
        /\ DOMAIN meta.instance.model_params = {"a", "b"}
        /\ \A i \in 1..Len(ParamNames) :
              meta.instance.model_params[ParamNames[i]] = Overlaid(i)
        /\ meta.clone # <<>> =>
              /\ ~meta.clone[1].fit_called
              /\ meta.clone[1].model_params = meta.instance.model_params

\* C34: after a model is constructed, alone, its model_params are the
\* defaults of the constructor overlaid with the positional and keyword
\* arguments passed, and the class holds no parameters in flight;
\* untrained_model() on the model, fitted or not, returns a new instance
\* that was never fit, with equal model_params, and leaves the fitted state
\* of the model as it was.
C34_CreationParams ==
    /\ []CreationParamsKept
    /\ [][(meta.pc = "constructed" /\ meta.clone = <<>>
             /\ meta'.clone # <<>>) => meta'.instance = meta.instance]_vars

\* A model built from one positional and one keyword argument for the same
\* parameter and the default of the other, fit, then copied by
\* untrained_model().
C34_Witness ==
    /\ meta.pc = "constructed" /\ meta.args = <<1>>
    /\ DOMAIN meta.kwargs = {"a"} /\ meta.kwargs["a"] = 2
    /\ meta.instance.model_params["a"] = 2
    /\ meta.instance.model_params["b"] = 0
    /\ meta.instance.fit_called
    /\ meta.clone # <<>>


\* C35: a fittable scorer is unfitted when constructed; it becomes fitted
\* only in a fit or fit_from_prediction that returns; while it is unfitted,
\* score and score_from_prediction raise and leave it unfitted; a fit that
\* raises (series of different widths, window larger than a series) leaves
\* an unfitted scorer unfitted.
C35_FittableLifecycle ==
    [][(scorer'.pc = "constructed" /\ scorer'.class = "Fittable") =>
          /\ scorer.pc = "idle" => ~scorer'.fit_called
          /\ (scorer.pc = "constructed" /\ ~scorer.fit_called) =>
                /\ scorer'.fit_called =>
                      /\ scorer'.last.op \in {"fit", "fit_from_prediction"}
                      /\ scorer'.last.ok
                /\ scorer'.last.op \in {"score", "score_from_prediction"} =>
                      /\ ~scorer'.last.ok
                      /\ scorer'.last.scores = <<>>
                      /\ ~scorer'.fit_called
                /\ ~scorer'.last.ok => ~scorer'.fit_called]_vars

\* a score was refused after a fit had been refused
C35_Witness ==
    /\ scorer.pc = "constructed"
    /\ scorer.class = "Fittable"
    /\ scorer.width_trained_on # 0
    /\ ~scorer.fit_called
    /\ scorer.last.op = "score"
    /\ scorer.last.err = "NotFitted"

\* C36: a scorer is constructed exactly when its window is an int greater
\* than 0; a score of a series of N points with window W that returns has
\* W <= N and gives N - W + 1 points stamped from position W - 1 of the
\* input's index; a fit or a score of a series with N < W raises.
C36_WindowArithmetic ==
    /\ scorer.pc \in {"constructed", "failed"} =>
          /\ scorer.pc = "constructed" =>
                /\ scorer.arg.type = "int"
                /\ scorer.arg.value > 0
                /\ scorer.window = scorer.arg.value
          /\ (scorer.arg.type # "int" \/ scorer.arg.value <= 0) =>
                scorer.pc = "failed"
    /\ scorer.pc = "constructed" =>
          /\ (scorer.last.op \in {"score", "score_from_prediction"}
                 /\ scorer.last.ok) =>
                /\ Len(scorer.last.scores) = Len(scorer.last.lens)
                /\ \A k \in 1..Len(scorer.last.lens) :
                      /\ scorer.window <= scorer.last.lens[k]
                      /\ scorer.last.scores[k].len
                            = scorer.last.lens[k] - scorer.window + 1
                      /\ scorer.last.scores[k].start = scorer.window - 1
          /\ (\E k \in 1..Len(scorer.last.lens) :
                 scorer.last.lens[k] < scorer.window) => ~scorer.last.ok

\* a fitted scorer of window 2 scored a series of 2 points
C36_Witness ==
    /\ scorer.pc = "constructed"
    /\ scorer.class = "Fittable"
    /\ scorer.window = 2
    /\ scorer.last.op = "score"
    /\ scorer.last.ok
    /\ scorer.last.lens = <<2>>
    /\ scorer.last.scores = <<[start |-> 1, len |-> 1]>>


C38_Original ==
    (scorer.pc \in {"constructed", "failed"} /\ scorer.by = "__init__") =>
        /\ (/\ scorer.given.model = "BaseDetector"
            /\ scorer.given.window.type = "int"
            /\ scorer.given.window.value > 0
            /\ scorer.given.component_wise.type = "bool"
            /\ scorer.given.diff_fn \in {"abs_diff", "diff"}) =>
              /\ scorer.pc = "constructed"
              /\ ~scorer.fit_called
              /\ scorer.univariate_scorer
                    = ~(scorer.given.component_wise.value # 0)
        /\ (\/ scorer.given.model # "BaseDetector"
            \/ scorer.given.component_wise.type # "bool") =>
              scorer.pc = "failed"

====
